---- MODULE Spec2Model ----
(***************************************************************************)
(* EagleReach backend: the /officials resolution pipeline of               *)
(* backend/main.py (TTL cache, fetch_zip, fetch_cd, fetch_senators,        *)
(* fetch_rep, fetch_mayor, normalize, officials) and the normalizers and   *)
(* district extraction of backend/providers/free_civic.py.                 *)
(*                                                                         *)
(* Python strings are sequences of one-character strings, so that strip,   *)
(* lower, startswith, substring search and f-string formatting are         *)
(* computed character by character.  None is the one-element sequence      *)
(* <<"None">>, which is no string of characters.                           *)
(***************************************************************************)
EXTENDS Integers, Sequences, FiniteSets, TLC

(***************************************************************************)
(* Bounds of the model.                                                    *)
(***************************************************************************)
NumReqs == 2
MaxTicks == 1
NumFedCalls == 2
MaxFedTicks == 2
NumCallers == 3

(***************************************************************************)
(* Python values and string operations.                                    *)
(***************************************************************************)
None == <<"None">>

Truthy(s) == s # None /\ s # <<>>

Or(a, b) == IF Truthy(a) THEN a ELSE b

IsSpace(c) == c \in {" ", "\t", "\n"}

RECURSIVE LStrip(_)
LStrip(s) == IF s # <<>> /\ IsSpace(Head(s)) THEN LStrip(Tail(s)) ELSE s

RECURSIVE RStrip(_)
RStrip(s) ==
    IF s # <<>> /\ IsSpace(s[Len(s)]) THEN RStrip(SubSeq(s, 1, Len(s) - 1)) ELSE s

Strip(s) == RStrip(LStrip(s))

RECURSIVE LStripChar(_, _)
LStripChar(s, c) == IF s # <<>> /\ Head(s) = c THEN LStripChar(Tail(s), c) ELSE s

Upper == <<"A","B","C","D","E","F","G","H","I","J","K","L","M",
           "N","O","P","Q","R","S","T","U","V","W","X","Y","Z">>
Lower == <<"a","b","c","d","e","f","g","h","i","j","k","l","m",
           "n","o","p","q","r","s","t","u","v","w","x","y","z">>

LowerChar(c) ==
    IF \E i \in 1..Len(Upper) : Upper[i] = c
    THEN Lower[CHOOSE i \in 1..Len(Upper) : Upper[i] = c]
    ELSE c

StrLower(s) == [i \in 1..Len(s) |-> LowerChar(s[i])]

StartsWith(s, p) == Len(s) >= Len(p) /\ SubSeq(s, 1, Len(p)) = p

\* Python's `sub in s` on strings.
Contains(s, sub) ==
    \E i \in 0..(Len(s) - Len(sub)) : SubSeq(s, i + 1, i + Len(sub)) = sub

IsDigit(c) == c \in {"0","1","2","3","4","5","6","7","8","9"}

\* str.isdigit(): non-empty and every character a digit.
StrIsDigit(s) == s # <<>> /\ \A i \in 1..Len(s) : IsDigit(s[i])

\* str(x) inside an f-string: None prints as the four characters None.
Str(x) == IF x = None THEN <<"N","o","n","e">> ELSE x

\* main.py: def _esc(s): return (s or "").strip()
Esc(s) == Strip(Or(s, <<>>))

DigitChar(d) == <<"0","1","2","3","4","5","6","7","8","9">>[d + 1]

RECURSIVE NatStr(_)
NatStr(n) == IF n < 10 THEN <<DigitChar(n)>> ELSE NatStr(n \div 10) \o <<DigitChar(n % 10)>>

RECURSIVE ZeroPad(_, _)
ZeroPad(s, w) == IF Len(s) >= w THEN s ELSE ZeroPad(<<"0">> \o s, w)

\* f"{x:.4f}" of a coordinate held in units of 1e-5 degree: rounded to
\* four decimals, sign kept.
Fmt4(x) ==
    LET a == IF x < 0 THEN -x ELSE x
        u == (a + 5) \div 10
        body == NatStr(u \div 10000) \o <<".">> \o ZeroPad(NatStr(u % 10000), 4)
    IN  IF x < 0 THEN <<"-">> \o body ELSE body

(***************************************************************************)
(* main.py: the in-memory TTL cache.  The store maps a key to the pair     *)
(* (expiry time, data); t is the reading of time.time().                   *)
(***************************************************************************)
TTL_HOUR == 3600
TTL_NEGATIVE == 600

\* The store after cache_get(key) at time t: an expired entry is popped.
CacheAfterGet(c, key, t) ==
    IF key \in DOMAIN c /\ t > c[key].exp
    THEN [k \in DOMAIN c \ {key} |-> c[k]]
    ELSE c

\* A cache_get that counts an entry as expired at its deadline already.
CacheGet_ExpiredAtDeadline(c, key, t) ==
    IF key \notin DOMAIN c THEN [none |-> TRUE, data |-> <<>>]
    ELSE IF t >= c[key].exp THEN [none |-> TRUE, data |-> <<>>]
    ELSE [none |-> FALSE, data |-> c[key].data]

\* What cache_get(key) returns at time t: none = TRUE stands for None.
CacheGet(c, key, t) ==
    IF key \notin DOMAIN c THEN [none |-> TRUE, data |-> <<>>]
    ELSE IF t > c[key].exp THEN [none |-> TRUE, data |-> <<>>]
    ELSE [none |-> FALSE, data |-> c[key].data]

\* A cache_set that stores the rows one at a time and is observed after
\* the first.
CacheSet_Torn(c, key, data, ttl, t) ==
    [k \in DOMAIN c \cup {key} |->
        IF k = key
        THEN [exp |-> t + ttl,
              data |-> IF Len(data) > 1 THEN SubSeq(data, 1, 1) ELSE data]
        ELSE c[k]]

\* The store after cache_set(key, data, ttl) at time t.
CacheSet(c, key, data, ttl, t) ==
    [k \in DOMAIN c \cup {key} |->
        IF k = key THEN [exp |-> t + ttl, data |-> data] ELSE c[k]]

(***************************************************************************)
(* main.py: cache keys (the f-strings of the fetchers).                    *)
(***************************************************************************)
ZipKey(zip_code) == <<"z","i","p",":">> \o zip_code

CdKey(lat, lon) == <<"c","d",":">> \o Fmt4(lat) \o <<",">> \o Fmt4(lon)

SenKey(state_abbr) == <<"s","e","n",":">> \o state_abbr

RepKey(state_abbr, district) ==
    <<"r","e","p",":">> \o state_abbr \o <<":">> \o district

MayorKey(city, st) == <<"m","a","y","o","r",":">> \o city \o <<",">> \o st

(***************************************************************************)
(* main.py: shaping of the upstream payloads.                              *)
(***************************************************************************)
SenatorOffice ==
    <<"U","n","i","t","e","d"," ","S","t","a","t","e","s"," ",
      "S","e","n","a","t","o","r">>

RepOffice(district) ==
    <<"U","n","i","t","e","d"," ","S","t","a","t","e","s"," ",
      "R","e","p","r","e","s","e","n","t","a","t","i","v","e"," ",
      "(","C","D"," ">> \o Str(district) \o <<")">>

RepSearchOffice(district) ==
    <<"U","n","i","t","e","d"," ","S","t","a","t","e","s"," ",
      "R","e","p","r","e","s","e","n","t","a","t","i","v","e"," ",
      "C","D"," ">> \o Str(district)

MayorOffice == <<"M","a","y","o","r">>

\* httpx.QueryParams({'q': q})['q'] hands back the value as it was given.
QueryParamValue(q) == q

fallback_search_url(name, state_abbr, office) ==
    <<"h","t","t","p","s",":","/","/","w","w","w",".","g","o","o","g","l","e",
      ".","c","o","m","/","s","e","a","r","c","h","?","q","=">>
    \o QueryParamValue(Str(name) \o <<" ">> \o Str(state_abbr) \o <<" ">>
                       \o Str(office)
                       \o <<" ","o","f","f","i","c","i","a","l"," ","s","i","t","e">>)

\* fetch_zip: the dict built from places[0].
ZipOut(place) ==
    [state_abbr |-> Esc(place.state_abbreviation),
     state_name |-> Esc(place.state),
     place_name |-> Esc(place.place_name),
     lat |-> place.latitude,
     lon |-> place.longitude]

\* fetch_cd: the district string from the CongressionalDistrict object.
CdOut(cd_obj) ==
    [district |->
        IF cd_obj.is_dict
        THEN Or(LStripChar(Esc(Or(cd_obj.code, <<>>)), "0"), None)
        ELSE None]

\* One row of fetch_senators / fetch_rep from one GovTrack role object.
RoleRow(it, state_abbr, office, search_office) ==
    LET name == Or(it.person.name, it.person.name_long)
        site == Or(it.website, it.person.link)
        website == IF ~Truthy(site)
                   THEN fallback_search_url(name, state_abbr, search_office)
                   ELSE site
    IN  [name |-> name,
         office |-> office,
         party |-> it.party,
         phones |-> IF Truthy(it.phone) THEN <<it.phone>> ELSE <<>>,
         emails |-> <<>>,
         urls |-> IF Truthy(website) THEN <<website>> ELSE <<>>]

SenatorRows(objects, state_abbr) ==
    [i \in 1..Len(objects) |->
        RoleRow(objects[i], state_abbr, SenatorOffice, SenatorOffice)]

RepRows(objects, state_abbr, district) ==
    [i \in 1..Len(objects) |->
        RoleRow(objects[i], state_abbr, RepOffice(district),
                RepSearchOffice(district))]

\* fetch_mayor after a 200 answer: the rows returned and the ttl they are
\* cached with.
MayorOut(bindings, st) ==
    IF bindings = <<>> THEN [rows |-> <<>>, ttl |-> TTL_NEGATIVE]
    ELSE LET name == bindings[1].personLabel
             site == bindings[1].website
             url == Or(site, fallback_search_url(name, st, MayorOffice))
         IN  IF ~Truthy(name) THEN [rows |-> <<>>, ttl |-> TTL_NEGATIVE]
             ELSE [rows |-> <<[name |-> name,
                               office |-> MayorOffice,
                               party |-> None,
                               phones |-> <<>>,
                               emails |-> <<>>,
                               urls |-> IF Truthy(url) THEN <<url>> ELSE <<>>]>>,
                   ttl |-> TTL_HOUR]

(***************************************************************************)
(* main.py: normalize.  sorted() is stable, so the rows of each weight     *)
(* keep their order.                                                       *)
(***************************************************************************)
w(row) ==
    LET off == StrLower(Or(row.office, <<>>))
    IN  IF Contains(off, <<"u","n","i","t","e","d"," ","s","t","a","t","e","s"," ",
                          "s","e","n","a","t","o","r">>) THEN 0
        ELSE IF Contains(off, <<"u","n","i","t","e","d"," ","s","t","a","t","e","s"," ",
                          "r","e","p","r","e","s","e","n","t","a","t","i","v","e">>) THEN 1
        ELSE IF Contains(off, <<"m","a","y","o","r">>) THEN 2
        ELSE 9

WeightIs(k, row) == w(row) = k

RowsOfWeight(rows, k) == 
    LET Keep(row) == WeightIs(k, row) IN SelectSeq(rows, Keep)

\* A normalize that leaves the rows in the order given.
normalize_Unsorted(rows) == rows

normalize(rows) ==
    RowsOfWeight(rows, 0) \o RowsOfWeight(rows, 1)
    \o RowsOfWeight(rows, 2) \o RowsOfWeight(rows, 9)

(***************************************************************************)
(* free_civic.py: district extraction from a geography bundle.  The bundle *)
(* (a dict, whose keys keep their order) is a sequence of layers           *)
(* [key, items]; an item is a record [STUSAB, BASENAME], None where the    *)
(* member is missing.                                                      *)
(***************************************************************************)
\* geo.get(key) or []: the items of the layer of that name, the empty
\* list without one.
GeoItems(geo, key) ==
    IF \E i \in 1..Len(geo) : geo[i].key = key
    THEN geo[CHOOSE i \in 1..Len(geo) : geo[i].key = key].items
    ELSE <<>>

CongressionalDistrict ==
    <<"C","o","n","g","r","e","s","s","i","o","n","a","l"," ",
      "D","i","s","t","r","i","c","t">>

\* next((k for k in geo.keys() if "Congressional District" in k), None)
CdKeyOf(geo) ==
    IF \E i \in 1..Len(geo) : Contains(geo[i].key, CongressionalDistrict)
    THEN geo[CHOOSE i \in 1..Len(geo) :
                /\ Contains(geo[i].key, CongressionalDistrict)
                /\ \A j \in 1..(i - 1) :
                      ~Contains(geo[j].key, CongressionalDistrict)].key
    ELSE None

\* "".join(ch for ch in basename if ch.isdigit())
DigitsOf(s) == SelectSeq(s, IsDigit)

DigitValue(c) == CHOOSE d \in 0..9 : DigitChar(d) = c

\* int() of a non-empty string of digits.
RECURSIVE StrToNat(_)
StrToNat(s) ==
    IF Len(s) = 1 THEN DigitValue(s[1])
    ELSE 10 * StrToNat(SubSeq(s, 1, Len(s) - 1)) + DigitValue(s[Len(s)])

\* Lines 181-186 (and the same text at 260-265): the district number of a
\* layer's first item.
DistrictOfBasename_AtLargeIsOne(item) ==
    LET basename == Strip(Or(item.BASENAME, <<>>))
    IN  StrToNat(Or(DigitsOf(basename), <<"1">>))

DistrictOfBasename(item) ==
    LET basename == Strip(Or(item.BASENAME, <<>>))
    IN  IF StartsWith(StrLower(basename), <<"a","t">>) THEN 0
        ELSE StrToNat(Or(DigitsOf(basename), <<"0">>))

NoExtract == [none |-> TRUE, state |-> <<>>, district |-> 0]

\* extract_state_and_cd of _census_state_and_cd_from_address; none = TRUE
\* stands for the None it returns.
extract_state_and_cd_address(geo) ==
    LET state_items == GeoItems(geo, <<"S","t","a","t","e","s">>)
        cd_key == CdKeyOf(geo)
        cd_items == GeoItems(geo, cd_key)
    IN  IF state_items = <<>> THEN NoExtract
        ELSE IF ~Truthy(state_items[1].STUSAB) THEN NoExtract
        ELSE [none |-> FALSE,
              state |-> state_items[1].STUSAB,
              district |-> IF ~Truthy(cd_key) THEN 0
                           ELSE IF cd_items = <<>> THEN 0
                           ELSE DistrictOfBasename(cd_items[1])]

\* An extraction that reads the district without asking for the state's
\* abbreviation.
extract_state_and_cd_zip_NoStateCheck(geo) ==
    LET state_items == GeoItems(geo, <<"S","t","a","t","e","s">>)
        cd_key == CdKeyOf(geo)
        cd_items == GeoItems(geo, cd_key)
    IN  IF state_items = <<>> THEN NoExtract
        ELSE [none |-> FALSE,
              state |-> state_items[1].STUSAB,
              district |-> IF ~Truthy(cd_key) THEN 0
                           ELSE IF cd_items = <<>> THEN 0
                           ELSE DistrictOfBasename(cd_items[1])]

\* extract_state_and_cd of _free_federal_officials (the ZIP path).
extract_state_and_cd_zip(geo) ==
    LET state_items == GeoItems(geo, <<"S","t","a","t","e","s">>)
        cd_key == CdKeyOf(geo)
        cd_items == GeoItems(geo, cd_key)
    IN  IF state_items = <<>> THEN NoExtract
        ELSE IF ~Truthy(state_items[1].STUSAB) THEN NoExtract
        ELSE [none |-> FALSE,
              state |-> state_items[1].STUSAB,
              district |-> IF ~Truthy(cd_key) THEN 0
                           ELSE IF cd_items = <<>> THEN 0
                           ELSE DistrictOfBasename(cd_items[1])]

(***************************************************************************)
(* free_civic.py: the normalizers.  A missing member of an upstream record *)
(* is None.  An Official is the record of its ten fields.                  *)
(***************************************************************************)
\* sep.join(xs)
RECURSIVE Join(_, _)
Join(xs, sep) ==
    IF xs = <<>> THEN <<>>
    ELSE IF Len(xs) = 1 THEN xs[1]
    ELSE xs[1] \o sep \o Join(Tail(xs), sep)

_to_official_congress(person, term) ==
    LET name == person.name
        full == Or(name.official_full,
                   Strip(Join(SelectSeq(<<name.first, name.middle, name.last>>,
                                        Truthy), <<" ">>)))
        office == IF term.type = <<"s","e","n">>
                  THEN <<"U","S"," ","S","e","n","a","t","o","r">>
                  ELSE <<"U","S"," ","R","e","p","r","e","s","e","n","t","a","t",
                         "i","v","e">>
    IN  [level |-> <<"f","e","d","e","r","a","l">>,
         office |-> office,
         name |-> full,
         party |-> term.party,
         state |-> term.state,
         district |-> IF term.has_district THEN NatStr(term.district) ELSE None,
         phones |-> SelectSeq(<<term.phone>>, Truthy),
         urls |-> SelectSeq(<<term.url>>, Truthy),
         photo_url |-> None,
         ids |-> person.id]

_to_official_openstates(item) ==
    LET given == Strip(Or(item.given_name, <<>>))
        family == Strip(Or(item.family_name, <<>>))
        name == Or(Or(Strip(given \o <<" ">> \o family),
                      Strip(Or(item.name, <<>>))),
                   <<"U","n","k","n","o","w","n">>)
        j == item.jurisdiction
        classification == StrLower(Or(j.classification, <<>>))
        level == IF classification = <<"c","o","u","n","t","r","y">>
                 THEN <<"f","e","d","e","r","a","l">>
                 ELSE IF classification = <<"s","t","a","t","e">>
                 THEN <<"s","t","a","t","e">>
                 ELSE Or(classification, <<"s","t","a","t","e">>)
        state == IF classification = <<"s","t","a","t","e">> THEN j.name ELSE None
        current_role == item.current_role
        office_title == Or(current_role.title,
                           <<"R","e","p","r","e","s","e","n","t","a","t","i","v","e">>)
        maybe_email == Or(item.email, current_role.email)
        urls == (IF Truthy(item.openstates_url) THEN <<item.openstates_url>> ELSE <<>>)
                \o (IF Truthy(maybe_email)
                    THEN << <<"m","a","i","l","t","o",":">> \o maybe_email >>
                    ELSE <<>>)
    IN  [level |-> level,
         office |-> IF level # <<"f","e","d","e","r","a","l">> THEN office_title
                    ELSE <<"U","S"," ">> \o office_title,
         name |-> name,
         party |-> item.party,
         state |-> state,
         district |-> None,
         phones |-> <<>>,
         urls |-> urls,
         photo_url |-> item.image,
         ids |-> item.id]

(***************************************************************************)
(* free_civic.py: the roster scan of _free_federal_officials.  A roster    *)
(* person is [name, id, terms]; a term carries, besides the fields         *)
(* _to_official_congress reads, its end: given = the key is present,       *)
(* iso = date.fromisoformat accepts it, day = the date as a day number.    *)
(***************************************************************************)
Date1900 == 0
SenatorCap == 2

\* A scan that consults a person's first term.
LastTerm_First(person) == person.terms[1]

\* terms[-1]
LastTerm(person) == person.terms[Len(person.terms)]

\* Lines 285-290: the term is skipped.  A missing end reads as 1900-01-01;
\* an end fromisoformat rejects raises, and the exception is passed over.
TermEnded(term, today) ==
    IF ~term.end.given THEN Date1900 < today
    ELSE term.end.iso /\ term.end.day < today

\* Lines 281-290: the loop body goes on to the type tests for the person.
Serving(person, today) ==
    /\ person.terms # <<>>
    /\ ~TermEnded(LastTerm(person), today)

\* int(term.get("district", 0))
TermDistrict(term) == IF term.has_district THEN term.district ELSE 0

\* Line 292
IsSenatorOf(person, state) ==
    /\ LastTerm(person).type = <<"s","e","n">>
    /\ LastTerm(person).state = state

\* Lines 294-295
IsRepOf(person, state, district) ==
    /\ LastTerm(person).type = <<"r","e","p">>
    /\ LastTerm(person).state = state
    /\ TermDistrict(LastTerm(person)) = district

\* xs[:n]
Prefix(xs, n) == SubSeq(xs, 1, IF Len(xs) < n THEN Len(xs) ELSE n)

\* Lines 277-302: raised = TRUE stands for the CivicLookupError of line 301.
FreeFederalResults(legislators, state, district, today) ==
    LET IsSen(person) == Serving(person, today) /\ IsSenatorOf(person, state)
        IsRep(person) == Serving(person, today) /\ IsRepOf(person, state, district)
        Official(person) == _to_official_congress(person, LastTerm(person))
        sens == SelectSeq(legislators, IsSen)
        reps == SelectSeq(legislators, IsRep)
        senators == Prefix([i \in 1..Len(sens) |-> Official(sens[i])], SenatorCap)
        results == senators \o (IF reps = <<>> THEN <<>>
                                ELSE <<Official(reps[Len(reps)])>>)
    IN  [raised |-> results = <<>>, results |-> results]

(***************************************************************************)
(* The inputs of /officials and the answers of the upstream providers.     *)
(***************************************************************************)
ZipInputs ==
    { <<"6","0","6","0","1">>, <<"a","b","c","d","e">>, <<"a","b","c">> }

Chicago ==
    [state_abbreviation |-> <<"I","L">>,
     state |-> <<"I","l","l","i","n","o","i","s">>,
     place_name |-> <<"C","h","i","c","a","g","o">>,
     latitude |-> 4188504,
     longitude |-> -8762981]

\* What api.zippopotam.us may answer: 404, another failure (non-2xx status
\* or network error), or 200 with a places list.  Only a string of five
\* digits is a ZIP the provider can know.
ZipAnswers(zip_code) ==
    { [kind |-> "404", places |-> <<>>],
      [kind |-> "error", places |-> <<>>],
      [kind |-> "ok", places |-> <<>>] }
    \cup (IF StrIsDigit(zip_code) /\ Len(zip_code) = 5
          THEN { [kind |-> "ok", places |-> <<Chicago>>] }
          ELSE {})

\* What geo.fcc.gov may answer: a failure, or 200 with a
\* CongressionalDistrict member that is an object with a code, or is none.
CdAnswers ==
    { [kind |-> "error", cd_obj |-> [is_dict |-> FALSE, code |-> None]],
      [kind |-> "ok", cd_obj |-> [is_dict |-> FALSE, code |-> None]],
      [kind |-> "ok", cd_obj |-> [is_dict |-> TRUE, code |-> <<"0","7">>]],
      [kind |-> "ok", cd_obj |-> [is_dict |-> TRUE, code |-> <<"0","0">>]] }

RoleA ==
    [person |-> [name |-> <<"A","l">>, name_long |-> None, link |-> None],
     website |-> <<"a",".","g","o","v">>, party |-> <<"D">>,
     phone |-> <<"5","5","5">>]

RoleB ==
    [person |-> [name |-> None, name_long |-> <<"B","o">>, link |-> None],
     website |-> None, party |-> <<"R">>, phone |-> None]

RoleC ==
    [person |-> [name |-> <<"C","y">>, name_long |-> None,
                 link |-> <<"c",".","g","o","v">>],
     website |-> None, party |-> <<"D">>, phone |-> None]

\* What www.govtrack.us may answer to the senators query.
SenAnswers ==
    { [kind |-> "error", objects |-> <<>>],
      [kind |-> "ok", objects |-> <<>>],
      [kind |-> "ok", objects |-> <<RoleA, RoleB>>] }

\* What www.govtrack.us may answer to the representative query.
RepAnswers ==
    { [kind |-> "error", objects |-> <<>>],
      [kind |-> "ok", objects |-> <<>>],
      [kind |-> "ok", objects |-> <<RoleC>>] }

\* What query.wikidata.org may answer: a status other than 200, an
\* exception (network error, timeout, a body that is no JSON), or 200 with
\* bindings.
MayorAnswers ==
    { [kind |-> "non200", bindings |-> <<>>],
      [kind |-> "exception", bindings |-> <<>>],
      [kind |-> "ok", bindings |-> <<>>],
      [kind |-> "ok", bindings |-> <<[personLabel |-> None, website |-> None]>>],
      [kind |-> "ok", bindings |->
          <<[personLabel |-> <<"D","i">>, website |-> None]>>] }

(***************************************************************************)
(* State.                                                                  *)
(*   now    the reading of time.time(), in seconds                         *)
(*   ticks  how many times the clock has advanced                          *)
(*   cache  main.py's _cache: key -> [exp, data]                           *)
(*   req    the /officials requests: the handler's position, its locals,   *)
(*          its three tasks (cd_task, senate_task, mayor_task), and a      *)
(*          record of the upstream calls and cache writes made for it      *)
(*   fn     the function under test ("none" while the server runs)        *)
(*   arg    its argument                                                   *)
(*   ret    <<>> before it is applied, then <<its result>>                 *)
(***************************************************************************)
VARIABLES now, ticks, cache, req, fn, arg, ret, fed

vars == <<now, ticks, cache, req, fn, arg, ret, fed>>

\* What /officials leaves alone: the function under application and the
\* provider module free_civic.
call == <<fn, arg, ret, fed>>

\* The calls of get_federal_officials.
FedCalls == 1..NumFedCalls

NoFedCalls == [zip |-> 0, geo |-> 0, roster |-> 0, os |-> 0]

\* A call of get_federal_officials not yet made.  queries and answers are
\* the geocoder queries of the free path's location resolution and what
\* they answered; exc and site are the class and the line of the raise;
\* ran lists the paths started, os_site is the line at which the
\* OpenStates path raised.
InitFedCall ==
    [pc |-> "idle", address |-> <<>>, stamp |-> 0, path |-> "none",
     queries |-> <<>>, answers |-> <<>>, geo |-> <<>>,
     located |-> FALSE, state |-> <<>>, district |-> 0,
     exc |-> "none", site |-> 0, results |-> <<>>,
     ran |-> <<>>, os_site |-> 0,
     calls |-> NoFedCalls, stored |-> FALSE]

\* free_civic after import with OpenStates not configured: _CACHE = {}.
InitFed ==
    [use_os |-> FALSE, api_key |-> FALSE, today |-> 2, cache |-> <<>>,
     call |-> [i \in FedCalls |-> InitFedCall]]

Reqs == 1..NumReqs

TickSteps == {600, 4000}

NoPlace ==
    [state_abbr |-> <<>>, state_name |-> <<>>, place_name |-> <<>>,
     lat |-> 0, lon |-> 0]

NoBody ==
    [zip |-> <<>>, state |-> [abbr |-> <<>>, name |-> <<>>], place |-> <<>>,
     location |-> [lat |-> 0, lon |-> 0], district |-> None,
     officials |-> <<>>]

NoCalls == [zip |-> 0, cd |-> 0, sen |-> 0, rep |-> 0, mayor |-> 0]

InitReq ==
    [pc |-> "idle", zip |-> <<>>, z |-> NoPlace,
     cd |-> "none", cd_res |-> [district |-> None], cd_code |-> None,
     sen |-> "none", sen_res |-> <<>>,
     mayor |-> "none", mayor_res |-> <<>>,
     district |-> None, rep |-> "none", rep_param |-> None,
     rep_rows |-> <<>>,
     status |-> 0, body |-> NoBody,
     zip_ans |-> "none", mayor_ans |-> "none",
     calls |-> NoCalls, wrote |-> {}]

\* The server after start-up: the cache is empty, no request has arrived.
InitServer ==
    /\ now = 0
    /\ ticks = 0
    /\ cache = <<>>
    /\ req = [r \in Reqs |-> InitReq]
    /\ fed = InitFed

Init ==
    /\ InitServer
    /\ fn = "none"
    /\ arg = <<>>
    /\ ret = <<>>

\* An upstream call is in flight for the request: its handler or one of
\* its tasks is suspended in client.get.
InFlight(q) ==
    \/ q.pc \in {"zip_wait", "rep_wait"}
    \/ q.cd = "waiting"
    \/ q.sen = "waiting"
    \/ q.mayor = "waiting"

\* A handler is running for the request (it has arrived and not returned).
Handling(q) == q.pc \notin {"idle", "done"}

\* The clock advances by minutes to hours.  Every client.get carries a
\* timeout of 15 to 20 seconds (lines 68, 91, 113, 142, 186), so no call
\* is in flight across such a step.
Tick ==
    /\ ticks < MaxTicks
    /\ \A r \in Reqs : ~Handling(req[r]) /\ ~InFlight(req[r])
    /\ \E d \in TickSteps : now' = now + d
    /\ ticks' = ticks + 1
    /\ UNCHANGED <<cache, req, call>>

\* The request ends with an HTTP error status.
Failed(q, status) == [q EXCEPT !.pc = "done", !.status = status]

\* officials, lines 225-232: the locals are bound, the three tasks are
\* created and the handler suspends on cd_task.
Spawned(q, out) ==
    [q EXCEPT !.z = out, !.cd = "created", !.sen = "created",
              !.mayor = "created", !.pc = "await_cd"]

\* The write of a cache entry, recorded for the request it was made for:
\* the key, the expiry time and the time of the write.
Wrote(q, key, ttl) == [q EXCEPT !.wrote = @ \cup {<<key, now + ttl, now>>}]

\* cd_task's first run: fetch_cd up to its upstream call, or to its end on
\* a cache hit.  s is the pair [q: the request, c: the cache].
RunCd(s) ==
    LET ck == CdKey(s.q.z.lat, s.q.z.lon)
        c == CacheGet(s.c, ck, now)
    IN  [q |-> IF ~c.none
               THEN [s.q EXCEPT !.cd = "done", !.cd_res = c.data]
               ELSE [s.q EXCEPT !.cd = "waiting", !.calls.cd = @ + 1],
         c |-> CacheAfterGet(s.c, ck, now)]

\* senate_task's first run: fetch_senators up to its upstream call, or to
\* its end on a hit (`if c`: a cached empty list is no hit).
RunSen(s) ==
    LET ck == SenKey(s.q.z.state_abbr)
        c == CacheGet(s.c, ck, now)
    IN  [q |-> IF ~c.none /\ c.data # <<>>
               THEN [s.q EXCEPT !.sen = "done", !.sen_res = c.data]
               ELSE [s.q EXCEPT !.sen = "waiting", !.calls.sen = @ + 1],
         c |-> CacheAfterGet(s.c, ck, now)]

\* A fetch_mayor that tests the cached value as fetch_senators does
\* (`if c`).
RunMayor_TruthyHit(s) ==
    LET city == Esc(s.q.z.place_name)
        st == Esc(s.q.z.state_name)
        ck == MayorKey(city, st)
        c == CacheGet(s.c, ck, now)
    IN  IF ~Truthy(city) \/ ~Truthy(st)
        THEN [q |-> [s.q EXCEPT !.mayor = "done", !.mayor_res = <<>>], c |-> s.c]
        ELSE [q |-> IF ~c.none /\ c.data # <<>>
                    THEN [s.q EXCEPT !.mayor = "done", !.mayor_res = c.data]
                    ELSE [s.q EXCEPT !.mayor = "waiting", !.calls.mayor = @ + 1],
              c |-> CacheAfterGet(s.c, ck, now)]

\* mayor_task's first run: fetch_mayor up to its upstream call, or to its
\* end when the city or state is blank or the cache holds an entry
\* (`if c is not None`: a cached empty list is a hit).
RunMayor(s) ==
    LET city == Esc(s.q.z.place_name)
        st == Esc(s.q.z.state_name)
        ck == MayorKey(city, st)
        c == CacheGet(s.c, ck, now)
    IN  IF ~Truthy(city) \/ ~Truthy(st)
        THEN [q |-> [s.q EXCEPT !.mayor = "done", !.mayor_res = <<>>], c |-> s.c]
        ELSE [q |-> IF ~c.none
                    THEN [s.q EXCEPT !.mayor = "done", !.mayor_res = c.data]
                    ELSE [s.q EXCEPT !.mayor = "waiting", !.calls.mayor = @ + 1],
              c |-> CacheAfterGet(s.c, ck, now)]

\* fetch_rep called for a district, lines 139-142: up to its upstream
\* call, or to its end on a hit (`if c`: a cached empty list is no hit).
RunRep(s, district) ==
    LET ck == RepKey(s.q.z.state_abbr, district)
        c == CacheGet(s.c, ck, now)
    IN  [q |-> IF ~c.none /\ c.data # <<>>
               THEN [s.q EXCEPT !.rep = "done", !.rep_param = district,
                                !.rep_rows = c.data, !.pc = "gather"]
               ELSE [s.q EXCEPT !.rep = "waiting", !.rep_param = district,
                                !.calls.rep = @ + 1, !.pc = "rep_wait"],
         c |-> CacheAfterGet(s.c, ck, now)]

\* officials, lines 225-232, once fetch_zip has returned `out`: the handler
\* creates the three tasks and suspends on cd_task; the event loop then
\* runs the tasks in the order of their creation, each up to its first
\* suspension.  No other coroutine runs in between: the three are adjacent
\* in the loop's ready queue.
Fanout(q, c, out) == RunMayor(RunSen(RunCd([q |-> Spawned(q, out), c |-> c])))

\* A request arrives; the requests are numbered in the order of arrival,
\* and one arrives when the handlers of the earlier ones have returned
\* (the tasks they created may still be running).  The Query(min_length=5, max_length=10) declaration
\* rejects other lengths with 422; otherwise fetch_zip runs up to its
\* upstream call, or returns the cached place and the handler goes on.
Receive(r, zip) ==
    /\ req[r].pc = "idle"
    /\ \A o \in Reqs \ {r} : ~Handling(req[o])
    /\ \A o \in 1..(r - 1) : req[o].pc = "done"
    /\ LET q == [req[r] EXCEPT !.zip = zip]
           ck == ZipKey(zip)
           c == CacheGet(cache, ck, now)
           f == Fanout(q, CacheAfterGet(cache, ck, now), c.data)
       IN  IF Len(zip) < 5 \/ Len(zip) > 10
           THEN /\ req' = [req EXCEPT ![r] = Failed(q, 422)]
                /\ cache' = cache
           ELSE IF ~c.none
           THEN /\ req' = [req EXCEPT ![r] = f.q]
                /\ cache' = f.c
           ELSE /\ req' = [req EXCEPT ![r] =
                              [q EXCEPT !.pc = "zip_wait", !.calls.zip = @ + 1]]
                /\ cache' = CacheAfterGet(cache, ck, now)
    /\ UNCHANGED <<now, ticks, call>>

\* A fetch_zip that lets a 404 answer fail like any other.
ZipError_NotFoundUnmapped(ans) ==
    IF ans.kind \in {"404", "error"} \/ ans.places = <<>> THEN 500
    ELSE 0

\* fetch_zip, lines 69-74: the status the request ends with when the
\* provider's answer makes fetch_zip raise, 0 when it does not.  A 404
\* answer raises HTTPException(404); another failure, or a payload with
\* no places, raises an exception the framework answers with 500.
ZipError(ans) ==
    IF ans.kind = "404" THEN 404
    ELSE IF ans.kind = "error" \/ ans.places = <<>> THEN 500
    ELSE 0

\* fetch_zip, lines 69-83: the provider answers; on success the handler
\* goes on to the fan-out.
ZipResponse(r, ans) ==
    /\ req[r].pc = "zip_wait"
    /\ LET q == [req[r] EXCEPT !.zip_ans = ans.kind]
           ck == ZipKey(q.zip)
       IN  IF ZipError(ans) # 0
           THEN /\ req' = [req EXCEPT ![r] = Failed(q, ZipError(ans))]
                /\ cache' = cache
           ELSE LET out == ZipOut(ans.places[1])
                    f == Fanout(Wrote(q, ck, TTL_HOUR),
                                CacheSet(cache, ck, out, TTL_HOUR, now), out)
                IN  /\ cache' = f.c
                    /\ req' = [req EXCEPT ![r] = f.q]
    /\ UNCHANGED <<now, ticks, call>>

\* fetch_cd, lines 92-101: the provider answers.
CdResponse(r, ans) ==
    /\ req[r].cd = "waiting"
    /\ LET q == req[r]
           ck == CdKey(q.z.lat, q.z.lon)
       IN  IF ans.kind = "error"
           THEN /\ req' = [req EXCEPT ![r].cd = "failed"]
                /\ cache' = cache
           ELSE LET out == CdOut(ans.cd_obj)
                IN  /\ cache' = CacheSet(cache, ck, out, TTL_HOUR, now)
                    /\ req' = [req EXCEPT ![r] =
                                  [Wrote(q, ck, TTL_HOUR) EXCEPT
                                      !.cd = "done", !.cd_res = out,
                                      !.cd_code = IF ans.cd_obj.is_dict
                                                  THEN ans.cd_obj.code
                                                  ELSE None]]
    /\ UNCHANGED <<now, ticks, call>>

\* fetch_senators, lines 114-133: the provider answers.
SenResponse(r, ans) ==
    /\ req[r].sen = "waiting"
    /\ LET q == req[r]
           ck == SenKey(q.z.state_abbr)
       IN  IF ans.kind = "error"
           THEN /\ req' = [req EXCEPT ![r].sen = "failed"]
                /\ cache' = cache
           ELSE LET rows == SenatorRows(ans.objects, q.z.state_abbr)
                IN  /\ cache' = CacheSet(cache, ck, rows, TTL_HOUR, now)
                    /\ req' = [req EXCEPT ![r] =
                                  [Wrote(q, ck, TTL_HOUR) EXCEPT
                                      !.sen = "done", !.sen_res = rows]]
    /\ UNCHANGED <<now, ticks, call>>

\* fetch_mayor, lines 187-211: the provider answers.
MayorResponse(r, ans) ==
    /\ req[r].mayor = "waiting"
    /\ LET q == [req[r] EXCEPT !.mayor_ans = ans.kind]
           st == Esc(q.z.state_name)
           ck == MayorKey(Esc(q.z.place_name), st)
       IN  IF ans.kind = "exception"
           THEN /\ req' = [req EXCEPT ![r] = [q EXCEPT !.mayor = "failed"]]
                /\ cache' = cache
           ELSE LET out == IF ans.kind = "non200"
                           THEN [rows |-> <<>>, ttl |-> TTL_NEGATIVE]
                           ELSE MayorOut(ans.bindings, st)
                IN  /\ cache' = CacheSet(cache, ck, out.rows, out.ttl, now)
                    /\ req' = [req EXCEPT ![r] =
                                  [Wrote(q, ck, out.ttl) EXCEPT
                                      !.mayor = "done", !.mayor_res = out.rows]]
    /\ UNCHANGED <<now, ticks, call>>

\* A handler that does not wait for cd_task.
CdTaskEnded_NoAwait(q) == q.cd \in {"waiting", "done", "failed"}

\* officials, line 232: `await cd_task` lets the handler go on once the
\* task has returned or raised.
CdTaskEnded(q) == q.cd \in {"done", "failed"}

\* officials, lines 232-234: cd_task has ended and the handler resumes.
\* It takes the district and runs fetch_rep up to its upstream call, or to its end when
\* there is no district or the cache holds rows.
AwaitCd(r) ==
    /\ req[r].pc = "await_cd"
    /\ CdTaskEnded(req[r])
    /\ LET q == req[r]
           district == q.cd_res.district
           ck == RepKey(q.z.state_abbr, district)
           c == CacheGet(cache, ck, now)
       IN  IF q.cd = "failed"
           THEN /\ req' = [req EXCEPT ![r] = Failed(q, 500)]
                /\ cache' = cache
           ELSE IF ~Truthy(district)
           THEN /\ req' = [req EXCEPT ![r].district = district,
                                      ![r].rep = "done",
                                      ![r].rep_rows = <<>>, ![r].pc = "gather"]
                /\ cache' = cache
           ELSE LET s == RunRep([q |-> [q EXCEPT !.district = district],
                                 c |-> cache], district)
                IN  /\ req' = [req EXCEPT ![r] = s.q]
                    /\ cache' = s.c
    /\ UNCHANGED <<now, ticks, call>>

\* fetch_rep, lines 143-162: the provider answers.
RepResponse(r, ans) ==
    /\ req[r].pc = "rep_wait"
    /\ LET q == req[r]
           ck == RepKey(q.z.state_abbr, q.rep_param)
       IN  IF ans.kind = "error"
           THEN /\ req' = [req EXCEPT ![r] = [Failed(q, 500) EXCEPT !.rep = "failed"]]
                /\ cache' = cache
           ELSE LET rows == RepRows(ans.objects, q.z.state_abbr, q.rep_param)
                IN  /\ cache' = CacheSet(cache, ck, rows, TTL_HOUR, now)
                    /\ req' = [req EXCEPT ![r] =
                                  [Wrote(q, ck, TTL_HOUR) EXCEPT
                                      !.rep = "done",
                                      !.rep_rows = rows, !.pc = "gather"]]
    /\ UNCHANGED <<now, ticks, call>>

\* officials, lines 239-253: the response body (generated_at, the wall
\* clock's reading, and the constant sources are left out).
Response(q, rows) ==
    [zip |-> q.zip,
     state |-> [abbr |-> q.z.state_abbr, name |-> q.z.state_name],
     place |-> q.z.place_name,
     location |-> [lat |-> q.z.lat, lon |-> q.z.lon],
     district |-> q.district,
     officials |-> rows]

\* officials, lines 235-253: asyncio.gather raises as soon as one of the
\* two tasks has raised, and returns when both have ended; the rows are
\* then concatenated and sorted and the response is returned.
Gather(r) ==
    /\ req[r].pc = "gather"
    /\ LET q == req[r]
       IN  IF q.sen = "failed" \/ q.mayor = "failed"
           THEN req' = [req EXCEPT ![r] = Failed(q, 500)]
           ELSE /\ q.sen = "done"
                /\ q.mayor = "done"
                /\ req' = [req EXCEPT ![r].pc = "done", ![r].status = 200,
                              ![r].body =
                                  Response(q, normalize(q.sen_res \o q.rep_rows
                                                        \o q.mayor_res))]
    /\ UNCHANGED <<now, ticks, cache, call>>

Next ==
    \/ Tick
    \/ \E r \in Reqs : \E zip \in ZipInputs : Receive(r, zip)
    \/ \E r \in Reqs : \E ans \in ZipAnswers(req[r].zip) : ZipResponse(r, ans)
    \/ \E r \in Reqs : \E ans \in CdAnswers : CdResponse(r, ans)
    \/ \E r \in Reqs : \E ans \in SenAnswers : SenResponse(r, ans)
    \/ \E r \in Reqs : \E ans \in MayorAnswers : MayorResponse(r, ans)
    \/ \E r \in Reqs : AwaitCd(r)
    \/ \E r \in Reqs : \E ans \in RepAnswers : RepResponse(r, ans)
    \/ \E r \in Reqs : Gather(r)

Spec == Init /\ [][Next]_vars

(***************************************************************************)
(* Properties of /officials.                                               *)
(***************************************************************************)
\* The request made no upstream call at all.
NoUpstreamCall(q) == q.calls = NoCalls

\* Every cache entry the request wrote is still within its TTL.
WritesStillFresh(q) == \A e \in q.wrote : now <= e[2]

\* What C1 compares of two responses.
Output(q) ==
    [state |-> q.body.state, place |-> q.body.place,
     location |-> q.body.location, district |-> q.body.district,
     officials |-> q.body.officials]

\* C1: a second /officials request for the same ZIP, made while the cache
\* entries written by the first are still within their TTL, returns the
\* same output as the first and issues no upstream call at all.
C1_Idempotent ==
    \A r1, r2 \in Reqs :
        ( /\ r1 < r2
          /\ req[r1].status = 200
          /\ req[r2].pc = "done"
          /\ req[r2].zip = req[r1].zip
          /\ WritesStillFresh(req[r1]) )
        => /\ req[r2].status = 200
           /\ Output(req[r2]) = Output(req[r1])
           /\ NoUpstreamCall(req[r2])

\* C1 divergence: the first request cached an empty senators list, and the
\* second request for the same ZIP, with every entry still fresh, queried
\* the senators upstream again.
C1_Witness ==
    \E r1, r2 \in Reqs :
        /\ r1 < r2
        /\ req[r1].status = 200
        /\ req[r1].sen_res = <<>>
        /\ req[r2].pc = "done"
        /\ req[r2].zip = req[r1].zip
        /\ WritesStillFresh(req[r1])
        /\ req[r2].calls.sen = 1

\* C2: when the ZIP, district, senators and representative lookups of a
\* request succeed and the mayor lookup fails in any way, the request ends
\* with 200 and its officials are the senators and the representative,
\* with no mayor entry.
C2_MayorFailureTolerated ==
    \A r \in Reqs :
        LET q == req[r]
        IN  ( /\ q.pc = "done"
              /\ q.cd = "done"
              /\ q.sen = "done"
              /\ q.rep = "done"
              /\ q.mayor = "failed" )
            => /\ q.status = 200
               /\ q.body.officials = q.sen_res \o q.rep_rows

\* C2 divergence: the mayor lookup raised after every other lookup had
\* succeeded, and the request ended with 500.
C2_Witness ==
    \E r \in Reqs :
        /\ req[r].pc = "done"
        /\ req[r].cd = "done"
        /\ req[r].sen = "done"
        /\ req[r].sen_res # <<>>
        /\ req[r].rep = "done"
        /\ req[r].rep_rows # <<>>
        /\ req[r].mayor = "failed"
        /\ req[r].status = 500

\* A lookup of the request came back empty or failed.
EmptyOrFailed(st, rows) == st = "failed" \/ (st = "done" /\ rows = <<>>)

\* C3: for a ZIP that geocodes, when the senators, representative and
\* mayor lookups all return empty or fail, the request ends with 502, and
\* no request ends with 200 and an empty officials list.
C3_AllFailIs502 ==
    \A r \in Reqs :
        LET q == req[r]
        IN  /\ ~(q.status = 200 /\ q.body.officials = <<>>)
            /\ ( /\ q.pc = "done"
                 /\ q.cd = "done"
                 /\ EmptyOrFailed(q.sen, q.sen_res)
                 /\ EmptyOrFailed(q.rep, q.rep_rows)
                 /\ EmptyOrFailed(q.mayor, q.mayor_res) )
               => q.status = 502

\* C3 divergence: the ZIP geocoded, every lookup came back empty, and the
\* request ended with 200 and an empty officials list.
C3_Witness ==
    \E r \in Reqs :
        /\ req[r].pc = "done"
        /\ req[r].zip_ans = "ok"
        /\ req[r].sen_res = <<>>
        /\ req[r].rep_rows = <<>>
        /\ req[r].mayor_res = <<>>
        /\ req[r].status = 200
        /\ req[r].body.officials = <<>>

\* The input is not exactly five decimal digits.
Malformed(zip) == ~(StrIsDigit(zip) /\ Len(zip) = 5)

\* C7: a malformed input ends with 400, and no upstream call is issued and
\* no cache entry is written for it.
C7_MalformedRejected ==
    \A r \in Reqs :
        LET q == req[r]
        IN  (q.pc # "idle" /\ Malformed(q.zip))
            => /\ NoUpstreamCall(q)
               /\ q.wrote = {}
               /\ (q.pc = "done" => q.status = 400)

\* C7 divergence: a five-letter input was sent to the ZIP provider.
C7_Witness ==
    \E r \in Reqs :
        /\ Malformed(req[r].zip)
        /\ req[r].calls.zip = 1

\* C8: when the ZIP provider answers that it does not know the ZIP, the
\* request ends with 404, no district, senators, representative or mayor
\* query is issued for it (none of its tasks is even created), and it
\* writes no cache entry.
C8_UnknownZip ==
    \A r \in Reqs :
        LET q == req[r]
        IN  q.zip_ans = "404"
            => /\ q.pc = "done"
               /\ q.status = 404
               /\ q.calls.cd = 0 /\ q.calls.sen = 0
               /\ q.calls.rep = 0 /\ q.calls.mayor = 0
               /\ q.cd = "none" /\ q.sen = "none"
               /\ q.mayor = "none" /\ q.rep = "none"
               /\ q.wrote = {}
               /\ ZipKey(q.zip) \notin DOMAIN cache
                  \/ \E o \in Reqs \ {r} : \E e \in req[o].wrote : e[1] = ZipKey(q.zip)

\* C8 witness: a well-formed ZIP was answered with 404 while the cache of
\* an earlier request for it had expired.
C8_Witness ==
    \E r \in Reqs :
        /\ req[r].zip_ans = "404"
        /\ StrIsDigit(req[r].zip)
        /\ \E o \in Reqs \ {r} : req[o].status = 200

\* C10: the representative query starts only once cd_task has returned,
\* and is given the district cd_task returned; the senators and mayor
\* tasks exist from the moment cd_task does, before it has ended.
C10_DistrictBeforeRep ==
    \A r \in Reqs :
        LET q == req[r]
        IN  /\ q.rep # "none" => q.cd = "done"
            /\ q.calls.rep > 0 => q.rep_param = q.cd_res.district
            /\ q.cd # "none" => (q.sen # "none" /\ q.mayor # "none")

\* C10 witness: the representative query is in flight, started after the
\* mayor query ended and while the senators query is still in flight.
C10_Witness ==
    \E r \in Reqs :
        /\ req[r].pc = "rep_wait"
        /\ req[r].cd = "done"
        /\ req[r].sen = "waiting"
        /\ req[r].mayor = "done"
        /\ req[r].calls.mayor = 1

\* The rows a slot contributes: none when its query raised.
SlotRows(st, rows) == IF st = "done" THEN rows ELSE <<>>

\* C12: in a request whose ZIP lookup succeeded, an exception of the
\* senators query or of the representative query does not fail the
\* request: it ends with 200, the failed slot is empty and the rows of the
\* other slots are returned.
C12_SlotsIsolated ==
    \A r \in Reqs :
        LET q == req[r]
        IN  ( /\ q.pc = "done"
              /\ q.cd = "done"
              /\ q.sen \in {"done", "failed"}
              /\ q.rep \in {"done", "failed"}
              /\ q.mayor = "done"
              /\ (q.sen = "failed" \/ q.rep = "failed") )
            => /\ q.status = 200
               /\ q.body.officials =
                      normalize(SlotRows(q.sen, q.sen_res)
                                \o SlotRows(q.rep, q.rep_rows)
                                \o q.mayor_res)

\* C12 divergence: the senators query raised, the representative and the
\* mayor were found, and the request ended with 500.
C12_Witness ==
    \E r \in Reqs :
        /\ req[r].pc = "done"
        /\ req[r].cd = "done"
        /\ req[r].sen = "failed"
        /\ req[r].rep = "done"
        /\ req[r].rep_rows # <<>>
        /\ req[r].mayor = "done"
        /\ req[r].mayor_res # <<>>
        /\ req[r].status = 500

\* /officials when every upstream call eventually returns or fails: a
\* step that can be taken is eventually taken.
SpecLive == Spec /\ WF_vars(Next)

\* The request has reached a terminal outcome: its handler has returned
\* or raised.
Terminal(q) == q.pc = "done"

\* The place of the request is known: fetch_zip returned.
LocationResolved(q) == q.z # NoPlace

\* The terminal outcomes, read off the response: ASSEMBLED is a 200,
\* LOCATION_FAILED an error before the location was resolved,
\* ALL_UPSTREAMS_FAILED an error after it.
Outcomes(q) ==
    {o \in {"LOCATION_FAILED", "ALL_UPSTREAMS_FAILED", "ASSEMBLED"} :
        \/ o = "ASSEMBLED" /\ q.status = 200
        \/ o = "LOCATION_FAILED" /\ q.status # 200 /\ ~LocationResolved(q)
        \/ o = "ALL_UPSTREAMS_FAILED" /\ q.status # 200 /\ LocationResolved(q)}

\* A query for officials was started for the request.
OfficialsFetched(q) ==
    \/ q.sen # "none"
    \/ q.mayor # "none"
    \/ q.rep # "none"
    \/ q.calls.sen + q.calls.rep + q.calls.mayor > 0

\* The safety part of C16 in a state.
OutcomeIsOne ==
    \A r \in Reqs :
        /\ Terminal(req[r]) => Cardinality(Outcomes(req[r])) = 1
        /\ OfficialsFetched(req[r]) => LocationResolved(req[r])

\* No step is taken for a request after its terminal outcome.
TerminalIsFinal ==
    \A r \in Reqs : Terminal(req[r]) => req'[r] = req[r]

\* C16: every request eventually reaches exactly one of LOCATION_FAILED,
\* ALL_UPSTREAMS_FAILED and ASSEMBLED; officials are fetched only for a
\* resolved location; and no further step is taken after the terminal
\* outcome.
C16_StateMachine ==
    /\ []OutcomeIsOne
    /\ [][TerminalIsFinal]_vars
    /\ \A r \in Reqs : (req[r].pc # "idle") ~> Terminal(req[r])

\* C16 divergence: the request has ended with an error while its senators
\* and mayor queries are still in flight.
C16_Witness ==
    \E r \in Reqs :
        /\ Terminal(req[r])
        /\ req[r].status = 500
        /\ req[r].sen = "waiting"
        /\ req[r].mayor = "waiting"

\* The district code consists only of zeros.
AllZeros(code) ==
    /\ code # None
    /\ code # <<>>
    /\ \A i \in 1..Len(code) : code[i] = "0"

\* The handler has taken the district from cd_task and gone past the call
\* of fetch_rep.
PastRep(q) == q.pc \in {"gather", "done"} /\ q.rep = "done"

\* C20: when the district lookup of the request reports an at-large
\* district (a code of zeros only), the request's district is 0 and not
\* null and the representative query is made; the district is null, and
\* the representative query skipped without an upstream call, only when
\* the lookup reported no district at all.
C20_AtLargeIsZero ==
    \A r \in Reqs :
        LET q == req[r]
        IN  (q.cd = "done" /\ q.calls.cd > 0)
            => /\ AllZeros(q.cd_code) => q.cd_res.district = <<"0">>
               /\ (PastRep(q) /\ AllZeros(q.cd_code))
                  => (q.district = <<"0">> /\ q.rep_param = <<"0">>)
               /\ q.cd_res.district = None => q.cd_code = None
               /\ (PastRep(q) /\ q.district = None) => q.calls.rep = 0

\* C20 divergence: the lookup reported the code "00", and the request
\* ended with a null district and without a representative query.
C20_Witness ==
    \E r \in Reqs :
        /\ req[r].cd_code = <<"0","0">>
        /\ req[r].pc = "done"
        /\ req[r].status = 200
        /\ req[r].body.district = None
        /\ req[r].calls.rep = 0

\* The step is the arrival of a failing answer for one of the upstream
\* calls of request r: an exception of client.get or raise_for_status, a
\* 404 of the ZIP provider, or a status other than 200 of the mayor query.
FailingAnswer(r) ==
    \/ req[r].pc = "zip_wait" /\ req'[r].zip_ans \in {"404", "error"}
    \/ req[r].cd = "waiting" /\ req'[r].cd = "failed"
    \/ req[r].sen = "waiting" /\ req'[r].sen = "failed"
    \/ req[r].pc = "rep_wait" /\ req'[r].rep = "failed"
    \/ req[r].mayor = "waiting" /\ req'[r].mayor_ans \in {"non200", "exception"}

\* C21: an upstream call of /officials that fails (network error, non-2xx
\* status) leaves the cache exactly as it was before the answer: no entry
\* is created or overwritten.
C21_FailureLeavesCache ==
    [][\A r \in Reqs : FailingAnswer(r) => cache' = cache]_vars

\* The mayor query was answered with a status other than 200 and the
\* request holds the record of a cache write under the mayor key.
C21_Witness ==
    \E r \in Reqs :
        /\ req[r].mayor_ans = "non200"
        /\ \E e \in req[r].wrote :
               e[1] = MayorKey(Esc(req[r].z.place_name), Esc(req[r].z.state_name))

\* The handler of the request raised at `await cd_task` (line 232).
DistrictFailed(q) == Terminal(q) /\ q.status = 500 /\ q.cd = "failed"

\* The task has ended: it returned or raised.
Ended(task) == task \in {"done", "failed"}

\* The request's senators and mayor queries went upstream, returned, and
\* the entries they wrote are within their TTL.
OrphansCached(q) ==
    /\ q.sen = "done" /\ q.calls.sen = 1
    /\ q.mayor = "done" /\ q.calls.mayor = 1
    /\ \E e \in q.wrote : e[1] = SenKey(q.z.state_abbr) /\ now <= e[2]
    /\ \E e \in q.wrote :
           /\ e[1] = MayorKey(Esc(q.z.place_name), Esc(q.z.state_name))
           /\ now <= e[2]

\* The step starts the senators and mayor queries of request r2, for the
\* state and place of request r1.
StartsQueriesFor(r1, r2) ==
    /\ r1 # r2
    /\ req[r2].sen = "none"
    /\ req'[r2].sen # "none"
    /\ req'[r2].z.state_abbr = req[r1].z.state_abbr
    /\ req'[r2].z.state_name = req[r1].z.state_name
    /\ req'[r2].z.place_name = req[r1].z.place_name

\* The queries of r2 are answered from the entries r1's tasks wrote.
ServedOrphans(r1, r2) ==
    /\ req'[r2].sen = "done"
    /\ req'[r2].sen_res = req[r1].sen_res
    /\ req'[r2].calls.sen = 0
    /\ req'[r2].mayor = "done"
    /\ req'[r2].mayor_res = req[r1].mayor_res
    /\ req'[r2].calls.mayor = 0

OrphansServeLater ==
    \A r1, r2 \in Reqs :
        (DistrictFailed(req[r1]) /\ OrphansCached(req[r1]) /\ StartsQueriesFor(r1, r2))
        => ServedOrphans(r1, r2)

\* C25: when the district lookup of a request fails, the senators and
\* mayor queries started for it are not cancelled: each eventually ends,
\* and once both have returned, a later request for the same state and
\* place, made while the entries they wrote are within their TTL, gets
\* its senators and its mayor from those entries without an upstream call.
C25_OrphansComplete ==
    /\ \A r \in Reqs :
           (DistrictFailed(req[r]) /\ req[r].sen = "waiting")
               ~> Ended(req[r].sen)
    /\ \A r \in Reqs :
           (DistrictFailed(req[r]) /\ req[r].mayor = "waiting")
               ~> Ended(req[r].mayor)
    /\ [][OrphansServeLater]_vars

\* C25 divergence: the district lookup of the first request failed, its
\* senators query returned an empty list after the handler had raised and
\* cached it for an hour; ten minutes later the second request for the
\* same ZIP queried the senators upstream again.
C25_Witness ==
    \E r1, r2 \in Reqs :
        /\ r1 < r2
        /\ DistrictFailed(req[r1])
        /\ req[r1].sen = "done" /\ req[r1].calls.sen = 1
        /\ req[r1].sen_res = <<>>
        /\ req[r1].mayor = "done" /\ req[r1].calls.mayor = 1
        /\ <<SenKey(req[r1].z.state_abbr), TTL_HOUR, 0>> \in req[r1].wrote
        /\ req[r2].zip = req[r1].zip
        /\ req[r2].z = req[r1].z
        /\ req[r2].calls.sen = 1
        /\ now = 600

\* The mayor query of the request went upstream and produced no mayor: a
\* status other than 200, no bindings, or a binding without a name.
NoMayor(q) ==
    /\ q.mayor = "done"
    /\ q.calls.mayor = 1
    /\ q.mayor_ans \in {"non200", "ok"}
    /\ q.mayor_res = <<>>

\* The key of the request's mayor query.
MayorKeyOf(q) == MayorKey(Esc(q.z.place_name), Esc(q.z.state_name))

\* The step starts the mayor query of r2, for the city and state of r1,
\* at most 600 seconds after r1's query wrote its entry.
MayorAgainWithin600(r1, r2) ==
    /\ r1 # r2
    /\ req[r2].mayor = "none"
    /\ req'[r2].mayor # "none"
    /\ MayorKeyOf(req'[r2]) = MayorKeyOf(req[r1])
    /\ \E e \in req[r1].wrote :
           e[1] = MayorKeyOf(req[r1]) /\ now - e[3] <= TTL_NEGATIVE

\* The cache holds an empty list under the key, not yet expired.
CachedEmpty(key) ==
    /\ key \in DOMAIN cache
    /\ cache[key].data = <<>>
    /\ now <= cache[key].exp

\* The step starts the senators query of r.
SenStarts(r) == req[r].sen = "none" /\ req'[r].sen # "none"

\* The step starts the representative query of r for a district.
RepStarts(r) ==
    /\ req[r].rep = "none"
    /\ req'[r].rep # "none"
    /\ req'[r].rep_param # None

(***************************************************************************)
(* The functions on their own: normalize, the row builders of main.py,     *)
(* the normalizers and the district extraction of free_civic.py, each      *)
(* applied once to an argument drawn from a bounded set.                   *)
(***************************************************************************)
MaxRows == 3
MaxRoster == 3

Row(name, office) ==
    [name |-> name, office |-> office, party |-> None, phones |-> <<>>,
     emails |-> <<>>, urls |-> <<>>]

CountyClerk == <<"C","o","u","n","t","y"," ","C","l","e","r","k">>

SampleRows ==
    { Row(<<"A","l">>, SenatorOffice), Row(<<"B","o">>, SenatorOffice),
      Row(<<"C","y">>, RepOffice(<<"7">>)), Row(<<"D","i">>, MayorOffice),
      Row(<<"E","d">>, CountyClerk), Row(<<"F","a">>, None) }

SeqsUpTo(S, n) == UNION { [1..k -> S] : k \in 0..n }

RoleNameless ==
    [person |-> [name |-> None, name_long |-> None, link |-> None],
     website |-> None, party |-> None, phone |-> None]

SampleObjects ==
    { <<>>, <<RoleA>>, <<RoleB>>, <<RoleC>>, <<RoleNameless>>, <<RoleA, RoleB>>,
      <<RoleB, RoleA>>, <<RoleC, RoleB>>, <<RoleA, RoleA>>,
      <<RoleA, RoleB, RoleC>> }

SampleBindings ==
    { <<>>,
      <<[personLabel |-> None, website |-> None]>>,
      <<[personLabel |-> <<"D","i">>, website |-> None]>>,
      <<[personLabel |-> <<"D","i">>, website |-> <<"x",".","i","o">>]>>,
      <<[personLabel |-> None, website |-> <<"x",".","i","o">>]>> }

SamplePersons ==
    { [name |-> [official_full |-> <<"A","l"," ","B","a">>, first |-> <<"A","l">>,
                 middle |-> None, last |-> <<"B","a">>],
       id |-> <<"B","0","0","0">>],
      [name |-> [official_full |-> None, first |-> <<"A","l">>,
                 middle |-> None, last |-> <<"B","a">>],
       id |-> <<"B","0","0","0">>],
      [name |-> [official_full |-> None, first |-> None,
                 middle |-> None, last |-> None],
       id |-> <<>>] }

SampleTerms ==
    { [type |-> <<"s","e","n">>, party |-> <<"D">>, state |-> <<"I","L">>,
       has_district |-> FALSE, district |-> 0,
       phone |-> <<"5","5","5">>, url |-> <<"a",".","g","o","v">>],
      [type |-> <<"s","e","n">>, party |-> <<"R">>, state |-> <<"I","L">>,
       has_district |-> FALSE, district |-> 0, phone |-> None, url |-> None],
      [type |-> <<"r","e","p">>, party |-> <<"D">>, state |-> <<"I","L">>,
       has_district |-> TRUE, district |-> 7, phone |-> None, url |-> None],
      [type |-> <<"r","e","p">>, party |-> None, state |-> <<"A","K">>,
       has_district |-> TRUE, district |-> 0, phone |-> None,
       url |-> <<"c",".","g","o","v">>] }

NoJurisdiction == [classification |-> None, name |-> None]

NoRole == [title |-> None, email |-> None]

SampleItems ==
    { [given_name |-> <<"A","l">>, family_name |-> <<"B","a">>, name |-> None,
       jurisdiction |-> [classification |-> <<"c","o","u","n","t","r","y">>,
                         name |-> None],
       current_role |-> [title |-> <<"S","e","n","a","t","o","r">>, email |-> None],
       openstates_url |-> <<"o",".","o","r","g">>, email |-> None,
       party |-> <<"D">>, image |-> None, id |-> <<"o","c","d","1">>],
      [given_name |-> None, family_name |-> None, name |-> <<"A","l"," ","B","a">>,
       jurisdiction |-> [classification |-> <<"s","t","a","t","e">>,
                         name |-> <<"I","l","l","i","n","o","i","s">>],
       current_role |-> NoRole,
       openstates_url |-> None, email |-> None,
       party |-> None, image |-> None, id |-> <<"o","c","d","1">>],
      [given_name |-> <<"A","l">>, family_name |-> None, name |-> None,
       jurisdiction |-> NoJurisdiction,
       current_role |-> [title |-> None, email |-> <<"a","@","x">>],
       openstates_url |-> None, email |-> None,
       party |-> None, image |-> None, id |-> None],
      [given_name |-> None, family_name |-> None, name |-> None,
       jurisdiction |-> NoJurisdiction,
       current_role |-> NoRole,
       openstates_url |-> None, email |-> None,
       party |-> None, image |-> None, id |-> None] }

StatesKey == <<"S","t","a","t","e","s">>

Item(stusab, basename) == [STUSAB |-> stusab, BASENAME |-> basename]

SampleStatesLayers ==
    { <<>>,
      <<[key |-> StatesKey, items |-> <<>>]>>,
      <<[key |-> StatesKey, items |-> <<Item(None, None)>>]>>,
      <<[key |-> StatesKey, items |-> <<Item(<<"A","K">>, None)>>]>> }

SampleCdKeys ==
    { <<"1","1","9","t","h"," ","C","o","n","g","r","e","s","s","i","o","n","a","l",
        " ","D","i","s","t","r","i","c","t","s">>,
      <<"1","1","9","t","h"," ","c","o","n","g","r","e","s","s","i","o","n","a","l",
        " ","d","i","s","t","r","i","c","t","s">> }

AtLarge == <<"A","t"," ","L","a","r","g","e">>

SampleCdItems ==
    { <<>>,
      <<Item(None, None)>>,
      <<Item(None, AtLarge)>>,
      <<Item(None, <<" ","a","t"," ","l","a","r","g","e">>)>>,
      <<Item(None, <<"C","o","n","g","r","e","s","s","i","o","n","a","l"," ",
                     "D","i","s","t","r","i","c","t"," ","7">>)>>,
      <<Item(None, AtLarge), Item(None, <<"1","2">>)>> }

SampleCdLayers ==
    {<<>>} \cup { <<[key |-> k, items |-> its]>> :
                     k \in SampleCdKeys, its \in SampleCdItems }

\* Bundles with the state layer before or after the district layer.
SampleGeos ==
    { st \o cd : st \in SampleStatesLayers, cd \in SampleCdLayers }
    \cup { cd \o st : st \in SampleStatesLayers, cd \in SampleCdLayers }

End(given, iso, day) == [given |-> given, iso |-> iso, day |-> day]

RosterTerm(type, state, has_district, district, end) ==
    [type |-> type, party |-> <<"D">>, state |-> state,
     has_district |-> has_district, district |-> district,
     phone |-> None, url |-> None, end |-> end]

SenTerm(state, end) == RosterTerm(<<"s","e","n">>, state, FALSE, 0, end)

RepTerm(state, district, end) == RosterTerm(<<"r","e","p">>, state, TRUE, district, end)

Person(id, terms) ==
    [name |-> [official_full |-> <<"P">> \o id, first |-> None, middle |-> None,
               last |-> None],
     id |-> id, terms |-> terms]

\* Ends before, on and after the day InitFed takes for today.
Past == End(TRUE, TRUE, 1)

Today == End(TRUE, TRUE, 2)

Future == End(TRUE, TRUE, 3)

Unparsable == End(TRUE, FALSE, 0)

NoEnd == End(FALSE, FALSE, 0)

IL == <<"I","L">>

SenFuture == Person(<<"1">>, <<SenTerm(IL, Future)>>)

SenToday == Person(<<"2">>, <<SenTerm(IL, Past), SenTerm(IL, Today)>>)

SenUnparsable == Person(<<"3">>, <<SenTerm(IL, Unparsable)>>)

\* A former senator: an earlier term runs on, the last one has ended.
SenFormer == Person(<<"4">>, <<SenTerm(IL, Future), SenTerm(IL, Past)>>)

SenNoEnd == Person(<<"5">>, <<SenTerm(IL, NoEnd)>>)

\* A representative who was a senator before.
Rep7 == Person(<<"6">>, <<SenTerm(IL, Future), RepTerm(IL, 7, Future)>>)

Rep7Other == Person(<<"7">>, <<RepTerm(IL, 7, Future)>>)

Rep9 == Person(<<"8">>, <<RepTerm(IL, 9, Future)>>)

NoTerms == Person(<<"9">>, <<>>)

RepAK == Person(<<"1","0">>, <<RepTerm(<<"A","K">>, 0, Future)>>)

RosterPersons ==
    { SenFuture, SenToday, SenUnparsable, SenFormer, SenNoEnd, Rep7, Rep7Other,
      Rep9, NoTerms, RepAK }

\* The rosters of up to n persons, no person listed twice.
RostersUpTo(n) ==
    { l \in SeqsUpTo(RosterPersons, n) :
        \A i, j \in 1..Len(l) : i # j => l[i] # l[j] }

SampleDistricts ==
    { [state |-> IL, district |-> 7], [state |-> <<"A","K">>, district |-> 0] }

\* officials, lines 235-237, over the answers of the three role queries:
\* the rows of the response.
OfficialsRows(sen_objects, rep_objects, bindings) ==
    normalize(SenatorRows(sen_objects, IL)
              \o RepRows(rep_objects, IL, <<"7">>)
              \o MayorOut(bindings, <<"I","l","l","i","n","o","i","s">>).rows)

InitFn ==
    /\ InitServer
    /\ ret = <<>>
    /\ \/ fn = "normalize" /\ arg \in SeqsUpTo(SampleRows, MaxRows)
       \/ /\ fn \in {"fetch_senators", "fetch_rep"}
          /\ arg \in SampleObjects
       \/ fn = "fetch_mayor" /\ arg \in SampleBindings
       \/ /\ fn = "_to_official_congress"
          /\ arg \in [person : SamplePersons, term : SampleTerms]
       \/ fn = "_to_official_openstates" /\ arg \in SampleItems
       \/ /\ fn \in {"extract_state_and_cd_address", "extract_state_and_cd_zip"}
          /\ arg \in SampleGeos
       \/ /\ fn = "_free_federal_officials"
          /\ arg \in { [legislators |-> l, state |-> d.state,
                         district |-> d.district, today |-> 2] :
                           l \in RostersUpTo(MaxRoster), d \in SampleDistricts }
       \/ /\ fn = "officials"
          /\ arg \in [sen : SampleObjects, rep : SampleObjects,
                       mayor : SampleBindings]

Applied(f, value) ==
    /\ fn = f
    /\ ret = <<>>
    /\ ret' = <<value>>
    /\ UNCHANGED <<now, ticks, cache, req, fn, arg, fed>>

ApplyNormalize == Applied("normalize", normalize(arg))

ApplySenatorRows == Applied("fetch_senators", SenatorRows(arg, <<"I","L">>))

ApplyRepRows == Applied("fetch_rep", RepRows(arg, <<"I","L">>, <<"7">>))

ApplyMayorOut ==
    Applied("fetch_mayor", MayorOut(arg, <<"I","l","l","i","n","o","i","s">>).rows)

ApplyToOfficialCongress ==
    Applied("_to_official_congress", _to_official_congress(arg.person, arg.term))

ApplyToOfficialOpenstates ==
    Applied("_to_official_openstates", _to_official_openstates(arg))

ApplyExtractAddress ==
    Applied("extract_state_and_cd_address", extract_state_and_cd_address(arg))

ApplyExtractZip ==
    Applied("extract_state_and_cd_zip", extract_state_and_cd_zip(arg))

ApplyFreeFederal ==
    Applied("_free_federal_officials",
            FreeFederalResults(arg.legislators, arg.state, arg.district,
                               arg.today))

ApplyOfficialsRows ==
    Applied("officials", OfficialsRows(arg.sen, arg.rep, arg.mayor))

NextFn ==
    \/ ApplyFreeFederal
    \/ ApplyOfficialsRows
    \/ ApplyNormalize
    \/ ApplySenatorRows
    \/ ApplyRepRows
    \/ ApplyMayorOut
    \/ ApplyToOfficialCongress
    \/ ApplyToOfficialOpenstates
    \/ ApplyExtractAddress
    \/ ApplyExtractZip

SpecFn == InitFn /\ [][NextFn]_vars

(***************************************************************************)
(* Properties of the functions.                                            *)
(***************************************************************************)
\* The office classes of C4, read off the office labels /officials writes.
OfficeClass(row) ==
    IF row.office = SenatorOffice THEN 0
    ELSE IF row.office # None
            /\ StartsWith(row.office, <<"U","n","i","t","e","d"," ","S","t","a","t","e","s",
                                        " ","R","e","p","r","e","s","e","n","t","a","t",
                                        "i","v","e">>) THEN 1
    ELSE IF row.office = MayorOffice THEN 2
    ELSE 3

Count(rows, row) == Cardinality({i \in 1..Len(rows) : rows[i] = row})

\* C4: in the list normalize returns, every US Senator row precedes every
\* US Representative row, which precedes every Mayor row, which precedes
\* every row of another office, whatever the order of the rows given to
\* it; and the list holds the rows given, each as often as given.
C4_Ordered ==
    (fn = "normalize" /\ ret # <<>>)
    => /\ \A i, j \in 1..Len(ret[1]) :
              i < j => OfficeClass(ret[1][i]) <= OfficeClass(ret[1][j])
       /\ Len(ret[1]) = Len(arg)
       /\ \A row \in SampleRows : Count(ret[1], row) = Count(arg, row)

\* C4 witness: normalize was given a mayor, a representative and a senator
\* in that order.
C4_Witness ==
    /\ fn = "normalize"
    /\ ret # <<>>
    /\ Len(arg) = 3
    /\ OfficeClass(arg[1]) = 2
    /\ OfficeClass(arg[2]) = 1
    /\ OfficeClass(arg[3]) = 0

\* The name of the upstream role object is known and it carries no website.
RoleNamedNoSite(it) ==
    /\ Truthy(Or(it.person.name, it.person.name_long))
    /\ ~Truthy(it.website)
    /\ ~Truthy(it.person.link)

\* C5: every Official a normalizer produces from a record with a known
\* name and no upstream website has a non-empty urls list.
C5_UrlsNonEmpty ==
    /\ (ret # <<>> /\ fn \in {"fetch_senators", "fetch_rep"})
       => \A i \in 1..Len(arg) :
              RoleNamedNoSite(arg[i]) => ret[1][i].urls # <<>>
    /\ ( /\ ret # <<>>
         /\ fn = "fetch_mayor"
         /\ arg # <<>>
         /\ Truthy(arg[1].personLabel)
         /\ ~Truthy(arg[1].website) )
       => (ret[1] # <<>> /\ ret[1][1].urls # <<>>)
    /\ ( /\ ret # <<>>
         /\ fn = "_to_official_congress"
         /\ Truthy(ret[1].name)
         /\ ~Truthy(arg.term.url) )
       => ret[1].urls # <<>>
    /\ ( /\ ret # <<>>
         /\ fn = "_to_official_openstates"
         /\ ret[1].name # <<"U","n","k","n","o","w","n">>
         /\ ~Truthy(arg.openstates_url) )
       => ret[1].urls # <<>>

\* C5 divergence: _to_official_congress returned a named Official with no
\* url from a term without one.
C5_Witness ==
    /\ fn = "_to_official_congress"
    /\ ret # <<>>
    /\ Truthy(ret[1].name)
    /\ ~Truthy(arg.term.url)
    /\ ret[1].urls = <<>>

\* The bundle has a state abbreviation.
HasStateAbbr(geo) ==
    \E i \in 1..Len(geo) :
        /\ geo[i].key = StatesKey
        /\ geo[i].items # <<>>
        /\ Truthy(geo[i].items[1].STUSAB)

\* The bundle has a congressional-district layer whose first item's base
\* name is "At Large".
HasAtLargeLayer(geo) ==
    \E i \in 1..Len(geo) :
        /\ Contains(StrLower(geo[i].key), StrLower(CongressionalDistrict))
        /\ geo[i].items # <<>>
        /\ geo[i].items[1].BASENAME = AtLarge

\* C6: for a bundle with a state abbreviation and an "At Large" district
\* layer, both copies of extract_state_and_cd return the state with
\* district 0, and not the None that makes the caller raise.
C6_AtLarge ==
    ( /\ fn \in {"extract_state_and_cd_address", "extract_state_and_cd_zip"}
      /\ ret # <<>>
      /\ HasStateAbbr(arg)
      /\ HasAtLargeLayer(arg) )
    => /\ ~ret[1].none
       /\ ret[1].district = 0
       /\ ret[1].state = <<"A","K">>

\* C6 witness: the ZIP path's extraction was applied to such a bundle,
\* whose layer key is found by the code's search.
C6_Witness ==
    /\ fn = "extract_state_and_cd_zip"
    /\ ret # <<>>
    /\ HasStateAbbr(arg)
    /\ HasAtLargeLayer(arg)
    /\ Truthy(CdKeyOf(arg))

\* The row is a US Senator's, as main.py or free_civic.py labels it.
IsSenatorRow(row) ==
    row.office \in {SenatorOffice, <<"U","S"," ","S","e","n","a","t","o","r">>}

\* The row is a US Representative's, as main.py or free_civic.py labels it.
IsRepRow(row) ==
    \/ OfficeClass(row) = 1
    \/ row.office = <<"U","S"," ","R","e","p","r","e","s","e","n","t","a","t","i","v","e">>

Senators(rows) == {i \in 1..Len(rows) : IsSenatorRow(rows[i])}

Representatives(rows) == {i \in 1..Len(rows) : IsRepRow(rows[i])}

\* C13: every officials list returned for one location, by the free
\* federal path and by /officials, holds at most 2 US Senators and at most
\* 1 US Representative, however many entries the roster or the upstream
\* role query matches.
C13_FederalCardinality ==
    /\ (fn = "_free_federal_officials" /\ ret # <<>>)
       => /\ Cardinality(Senators(ret[1].results)) <= 2
          /\ Cardinality(Representatives(ret[1].results)) <= 1
    /\ (fn = "officials" /\ ret # <<>>)
       => /\ Cardinality(Senators(ret[1])) <= 2
          /\ Cardinality(Representatives(ret[1])) <= 1

\* C13 divergence: the senators query answered with three role objects
\* and /officials assembled three US Senator rows.
C13_Witness ==
    /\ fn = "officials"
    /\ ret # <<>>
    /\ Len(arg.sen) = 3
    /\ Cardinality(Senators(ret[1])) = 3

\* The person appears in the results (persons are told apart by id).
Included(person, results) ==
    \E k \in 1..Len(results) : results[k].ids = person.id

\* The person's most recent term matches the resolved state (and district,
\* for a representative), and its end is today or later or cannot be
\* parsed.
CurrentlyServes(person, a) ==
    /\ person.terms # <<>>
    /\ LET term == person.terms[Len(person.terms)]
       IN  /\ term.state = a.state
           /\ \/ term.type = <<"s","e","n">>
              \/ term.type = <<"r","e","p">> /\ term.district = a.district
           /\ term.end.given
           /\ (term.end.iso => term.end.day >= a.today)

\* The most recent term of the person is a senator's.
SenatorNow(person) ==
    person.terms # <<>> /\ person.terms[Len(person.terms)].type = <<"s","e","n">>

\* Two currently serving senators precede the i-th person of the roster,
\* or a currently serving representative follows it.
Displaced(i, a) ==
    LET l == a.legislators
    IN  IF SenatorNow(l[i])
        THEN Cardinality({j \in 1..(i - 1) :
                 SenatorNow(l[j]) /\ CurrentlyServes(l[j], a)}) >= 2
        ELSE \E j \in (i + 1)..Len(l) :
                 ~SenatorNow(l[j]) /\ CurrentlyServes(l[j], a)

\* C14 as stated: a roster person is in the result iff their most recent
\* term matches the resolved state (and district) and has not ended before
\* today or has an end that cannot be parsed.
C14_ServingIffIncluded ==
    (fn = "_free_federal_officials" /\ ret # <<>>)
    => \A i \in 1..Len(arg.legislators) :
           Included(arg.legislators[i], ret[1].results)
           <=> CurrentlyServes(arg.legislators[i], arg)

\* C14 amended: a roster person is in the result iff they currently serve
\* by their most recent term and are not displaced: a senator by two
\* currently serving senators earlier in the roster, a representative by
\* a currently serving representative later in it.
C14_ServingUnlessDisplaced ==
    (fn = "_free_federal_officials" /\ ret # <<>>)
    => \A i \in 1..Len(arg.legislators) :
           Included(arg.legislators[i], ret[1].results)
           <=> (CurrentlyServes(arg.legislators[i], arg) /\ ~Displaced(i, arg))

\* C14 witness: a former senator with an earlier matching term that runs
\* on is left out, and a senator whose end cannot be parsed is included.
C14_Witness ==
    /\ fn = "_free_federal_officials"
    /\ ret # <<>>
    /\ arg.state = IL
    /\ \E i, j \in 1..Len(arg.legislators) :
           /\ arg.legislators[i] = SenFormer
           /\ ~Included(SenFormer, ret[1].results)
           /\ arg.legislators[j] = SenUnparsable
           /\ Included(SenUnparsable, ret[1].results)

\* Every row of the list has a name that is neither None nor empty.
AllNamed(rows) == \A i \in 1..Len(rows) : Truthy(rows[i].name)

\* C15: every Official in a returned list, whether a row built by
\* fetch_senators, fetch_rep or fetch_mayor or an Official built by
\* _to_official_congress or _to_official_openstates, has a non-empty name,
\* for every shape of upstream record.
C15_Named ==
    /\ (ret # <<>> /\ fn \in {"fetch_senators", "fetch_rep", "fetch_mayor",
                              "officials"})
       => AllNamed(ret[1])
    /\ (ret # <<>> /\ fn \in {"_to_official_congress", "_to_official_openstates"})
       => Truthy(ret[1].name)
    /\ (ret # <<>> /\ fn = "_free_federal_officials")
       => AllNamed(ret[1].results)

\* C15 divergence: fetch_senators built a row whose name is None from a
\* role object without name fields.
C15_Witness ==
    /\ fn = "fetch_senators"
    /\ ret # <<>>
    /\ arg = <<RoleNameless>>
    /\ Len(ret[1]) = 1
    /\ ret[1][1].name = None

\* Two rows are entries for the same official.
SameOfficial(a, b) == a.name = b.name /\ a.office = b.office

\* C18: the officials list /officials returns holds no two entries for the
\* same official (same name and office), even when an upstream returns a
\* person more than once.
C18_NoDuplicates ==
    (fn = "officials" /\ ret # <<>>)
    => \A i, j \in 1..Len(ret[1]) :
           i < j => ~SameOfficial(ret[1][i], ret[1][j])

\* C18 divergence: the senators query returned the same role object twice
\* and the response lists the senator twice.
C18_Witness ==
    /\ fn = "officials"
    /\ ret # <<>>
    /\ arg.sen = <<RoleA, RoleA>>
    /\ Len(ret[1]) >= 2
    /\ ret[1][1] = ret[1][2]

\* The key names a congressional-district layer in some letter case.
NamesDistrictLayer(key) ==
    Contains(StrLower(key), StrLower(CongressionalDistrict))

\* The bundle has a congressional-district layer, its key in any letter
\* case, whose first item's base name is "Congressional District 7".
HasDistrict7Layer(geo) ==
    \E i \in 1..Len(geo) :
        /\ NamesDistrictLayer(geo[i].key)
        /\ geo[i].items # <<>>
        /\ geo[i].items[1].BASENAME =
               <<"C","o","n","g","r","e","s","s","i","o","n","a","l"," ",
                 "D","i","s","t","r","i","c","t"," ","7">>

\* C19: district extraction uses the key that contains "Congressional
\* District" compared case-insensitively and parses its base name; with a
\* state present, the district is the default 0 for want of a layer only
\* when no key contains the substring in any letter case.
C19_CaseInsensitiveLayer ==
    ( /\ fn \in {"extract_state_and_cd_address", "extract_state_and_cd_zip"}
      /\ ret # <<>>
      /\ HasStateAbbr(arg) )
    => /\ ~ret[1].none
       /\ HasDistrict7Layer(arg) => ret[1].district = 7
       /\ (\A i \in 1..Len(arg) : ~NamesDistrictLayer(arg[i].key))
          => ret[1].district = 0

\* C19 divergence: the layer key is "119th congressional districts", its
\* base name names district 7, and the extraction returned district 0.
C19_Witness ==
    /\ fn = "extract_state_and_cd_zip"
    /\ ret # <<>>
    /\ HasStateAbbr(arg)
    /\ HasDistrict7Layer(arg)
    /\ ~Truthy(CdKeyOf(arg))
    /\ ret[1].district = 0

(***************************************************************************)
(* The cache on its own: cache_set and cache_get called with any key at    *)
(* any time.  arg remembers, for each key, the last cache_set made for it; *)
(* ret remembers the last call and, for a cache_get, what it returned.     *)
(***************************************************************************)
MaxElapse == 2

CacheKeys == { ZipKey(<<"6","0","6","0","1">>), SenKey(<<"I","L">>) }

CacheData == { <<>>, <<Row(<<"A","l">>, SenatorOffice)>> }

CacheTTLs == { TTL_NEGATIVE, TTL_HOUR }

InitCache ==
    /\ InitServer
    /\ fn = "cache"
    /\ arg = <<>>
    /\ ret = <<>>

\* cache_set(key, data, ttl), lines 44-45.
CacheSetCall(key, data, ttl) ==
    /\ fn = "cache"
    /\ cache' = CacheSet(cache, key, data, ttl, now)
    /\ arg' = [k \in DOMAIN arg \cup {key} |->
                  IF k = key THEN [at |-> now, ttl |-> ttl, data |-> data]
                  ELSE arg[k]]
    /\ ret' = <<[op |-> "set", key |-> key, at |-> now,
                 got |-> [none |-> TRUE, data |-> <<>>]]>>
    /\ UNCHANGED <<now, ticks, req, fn, fed>>

\* cache_get(key), lines 36-42.
CacheGetCall(key) ==
    /\ fn = "cache"
    /\ cache' = CacheAfterGet(cache, key, now)
    /\ ret' = <<[op |-> "get", key |-> key, at |-> now,
                 got |-> CacheGet(cache, key, now)]>>
    /\ UNCHANGED <<now, ticks, req, fn, arg, fed>>

\* Time passes between two calls.
Elapse ==
    /\ fn = "cache"
    /\ ticks < MaxElapse
    /\ \E d \in TickSteps : now' = now + d
    /\ ticks' = ticks + 1
    /\ UNCHANGED <<cache, req, call>>

NextCache ==
    \/ \E key \in CacheKeys, data \in CacheData, ttl \in CacheTTLs :
           CacheSetCall(key, data, ttl)
    \/ \E key \in CacheKeys : CacheGetCall(key)
    \/ Elapse

SpecCache == InitCache /\ [][NextCache]_vars

\* The last call was a cache_get of a key that was set before.
GotAfterSet ==
    /\ fn = "cache"
    /\ ret # <<>>
    /\ ret[1].op = "get"
    /\ ret[1].key \in DOMAIN arg

\* The deadline of the last cache_set of the key: s + ttl.
Deadline(key) == arg[key].at + arg[key].ttl

\* What the last cache_get must have returned and left in the store.
GetIsLazy ==
    GotAfterSet =>
        IF ret[1].at > Deadline(ret[1].key)
        THEN /\ ret[1].got.none
             /\ ret[1].key \notin DOMAIN cache
        ELSE /\ ~ret[1].got.none
             /\ ret[1].got.data = arg[ret[1].key].data
             /\ ret[1].key \in DOMAIN cache

\* An entry leaves the store only in a cache_get of its key made after
\* its deadline.
OnlyGetRemoves ==
    \A key \in DOMAIN cache :
        key \notin DOMAIN cache' =>
            /\ ret' # <<>>
            /\ ret'[1].op = "get"
            /\ ret'[1].key = key
            /\ ret'[1].at = now
            /\ now > Deadline(key)

\* C9: after cache_set(key, value, ttl) at time s, a cache_get(key) at a
\* later time t with no set in between returns value while t <= s + ttl,
\* and once t > s + ttl returns absent and removes the entry; no other
\* step removes an entry.
C9_LazyExpiry == [](GetIsLazy) /\ [][OnlyGetRemoves]_vars

\* C9 witness: a cache_get after the deadline has returned absent and the
\* entry is gone, in a store that still holds another entry whose own
\* deadline has passed.
C9_Witness ==
    /\ GotAfterSet
    /\ ret[1].at > Deadline(ret[1].key)
    /\ ret[1].key \notin DOMAIN cache
    /\ \E key \in DOMAIN cache : now > Deadline(key)

(***************************************************************************)
(* fetch_senators called concurrently: each caller runs from its call to   *)
(* its upstream request in one step (lines 110-114, no await in between)   *)
(* and from the answer to its return in another (lines 115-133).  The      *)
(* callers' steps interleave freely.                                       *)
(***************************************************************************)
RaceStates == {<<"I","L">>, <<"A","K">>}

\* What www.govtrack.us may answer to the callers: as in /officials, or
\* the two roles in the other order.
RaceAnswers == SenAnswers \cup {[kind |-> "ok", objects |-> <<RoleB, RoleA>>]}

InitRace ==
    /\ InitServer
    /\ fn = "fetch_senators"
    /\ arg = <<>>
    /\ ret = <<>>

\* Caller r calls fetch_senators(state_abbr).
RaceCall(r, state_abbr) ==
    /\ fn = "fetch_senators"
    /\ req[r].sen = "none"
    /\ LET s == RunSen([q |-> [req[r] EXCEPT !.z.state_abbr = state_abbr],
                        c |-> cache])
       IN  /\ req' = [req EXCEPT ![r] = s.q]
           /\ cache' = s.c
    /\ UNCHANGED <<now, ticks, call>>

NextRace ==
    \/ \E r \in Reqs, state_abbr \in RaceStates : RaceCall(r, state_abbr)
    \/ \E r \in Reqs, ans \in RaceAnswers : SenResponse(r, ans)
    \/ Tick

SpecRace == InitRace /\ [][NextRace]_vars

\* The caller went to the upstream: it found no entry, or an empty one.
Missed(q) == q.sen \in {"waiting", "failed"} \/ (q.sen = "done" /\ q.wrote # {})

\* The caller returned rows it fetched itself.
Fetched(q) == q.sen = "done" /\ q.calls.sen = 1

\* The complete results an upstream fetch for the state can have.
CompleteResults(state_abbr) ==
    { SenatorRows(ans.objects, state_abbr) :
          ans \in { a \in RaceAnswers : a.kind = "ok" } }

SameKey(q, p) == q.z.state_abbr = p.z.state_abbr

\* C22: with concurrent fetch_senators calls for one key, every call that
\* returns, returns the complete result of an upstream fetch (its own, or
\* on a hit that of another caller); once the callers for a key, two or
\* more of which fetched, have all returned, the cache holds for the key
\* the rows of one of the fetchers; and
\* the upstream calls for a key are never more than the callers that
\* missed.
C22_AcceptedRace ==
    /\ \A r \in Reqs :
           LET q == req[r]
           IN  q.sen = "done"
               => /\ q.sen_res \in CompleteResults(q.z.state_abbr)
                  /\ \E x \in Reqs :
                         /\ Fetched(req[x])
                         /\ SameKey(req[x], q)
                         /\ req[x].sen_res = q.sen_res
    /\ \A k \in RaceStates :
           LET Callers == {r \in Reqs : req[r].sen # "none" /\ req[r].z.state_abbr = k}
               Fetchers == {r \in Callers : Fetched(req[r])}
           IN  (Cardinality(Fetchers) >= 2 /\ \A r \in Callers : req[r].sen = "done")
               => /\ SenKey(k) \in DOMAIN cache
                  /\ cache[SenKey(k)].data \in {req[r].sen_res : r \in Fetchers}
    /\ \A k \in RaceStates :
           LET Callers == {r \in Reqs : req[r].sen # "none" /\ req[r].z.state_abbr = k}
               Sum[S \in SUBSET Callers] ==
                   IF S = {} THEN 0
                   ELSE LET r == CHOOSE r \in S : TRUE
                        IN  req[r].calls.sen + Sum[S \ {r}]
           IN  /\ Sum[Callers] <= Cardinality({r \in Callers : Missed(req[r])})
               /\ \A r \in Callers : req[r].calls.sen <= 1

\* Two callers for the same key were suspended in the upstream call at
\* the same time (neither found the other's rows, which were written at
\* the same reading of the clock), and returned different rows.
C22_Witness ==
    /\ fn = "fetch_senators"
    /\ \E r, x \in Reqs :
           /\ r # x
           /\ SameKey(req[r], req[x])
           /\ Fetched(req[r]) /\ Fetched(req[x])
           /\ req[r].wrote = req[x].wrote
           /\ req[r].sen_res # <<>> /\ req[x].sen_res # <<>>
           /\ req[r].sen_res # req[x].sen_res

(***************************************************************************)
(* fetch_mayor, fetch_senators and fetch_rep called directly for one       *)
(* place.  Each of NumCallers callers awaits fetch_mayor; the first        *)
(* NumReqs of them then await fetch_senators and fetch_rep, whose upstream *)
(* answers with a list.  Each call runs to the upstream request in one     *)
(* step and from the answer to its return in another, and the callers'     *)
(* steps interleave freely.                                                *)
(***************************************************************************)
Callers == 1..NumCallers

District7 == <<"7">>

\* The answers that carry a list.
Lists(answers) == {ans \in answers : ans.kind = "ok"}

InitFetch ==
    /\ now = 0
    /\ ticks = 0
    /\ cache = <<>>
    /\ req = [r \in Callers |-> [InitReq EXCEPT !.z = ZipOut(Chicago)]]
    /\ fed = InitFed
    /\ fn = "fetch"
    /\ arg = <<>>
    /\ ret = <<>>

\* Caller r calls fetch_senators, fetch_mayor having ended.
SenCall(r) ==
    /\ fn = "fetch"
    /\ Ended(req[r].mayor)
    /\ req[r].sen = "none"
    /\ LET s == RunSen([q |-> req[r], c |-> cache])
       IN  /\ req' = [req EXCEPT ![r] = s.q]
           /\ cache' = s.c
    /\ UNCHANGED <<now, ticks, call>>

\* Caller r calls fetch_rep for district 7, fetch_senators having ended.
RepCall(r) ==
    /\ fn = "fetch"
    /\ Ended(req[r].sen)
    /\ req[r].rep = "none"
    /\ LET s == RunRep([q |-> req[r], c |-> cache], District7)
       IN  /\ req' = [req EXCEPT ![r] = s.q]
           /\ cache' = s.c
    /\ UNCHANGED <<now, ticks, call>>

\* Caller r calls fetch_mayor.
MayorCall(r) ==
    /\ fn = "fetch"
    /\ req[r].mayor = "none"
    /\ LET s == RunMayor([q |-> req[r], c |-> cache])
       IN  /\ req' = [req EXCEPT ![r] = s.q]
           /\ cache' = s.c
    /\ UNCHANGED <<now, ticks, call>>

\* The clock advances while no call is in flight.
FetchTick ==
    /\ fn = "fetch"
    /\ ticks < MaxTicks
    /\ \A r \in Callers : ~InFlight(req[r])
    /\ \E d \in TickSteps : now' = now + d
    /\ ticks' = ticks + 1
    /\ UNCHANGED <<cache, req, call>>

NextFetch ==
    \/ \E r \in Reqs : SenCall(r)
    \/ \E r \in Reqs : RepCall(r)
    \/ \E r \in Callers : MayorCall(r)
    \/ \E r \in Reqs, ans \in Lists(SenAnswers) : SenResponse(r, ans)
    \/ \E r \in Reqs, ans \in Lists(RepAnswers) : RepResponse(r, ans)
    \/ \E r \in Callers, ans \in MayorAnswers : MayorResponse(r, ans)
    \/ FetchTick

SpecFetch == InitFetch /\ [][NextFetch]_vars

\* A senators or representative query that finds a cached empty list goes
\* upstream all the same.
EmptyListsRefetched ==
    /\ \A r \in DOMAIN req :
           (SenStarts(r) /\ CachedEmpty(SenKey(req'[r].z.state_abbr)))
           => /\ req'[r].sen = "waiting"
              /\ req'[r].calls.sen = 1
    /\ \A r \in DOMAIN req :
           (RepStarts(r) /\ CachedEmpty(RepKey(req'[r].z.state_abbr, req'[r].rep_param)))
           => /\ req'[r].rep = "waiting"
              /\ req'[r].calls.rep = 1

\* A mayor query for the city and state of an earlier query that produced
\* no mayor, started at most 600 seconds after it, returns the empty list
\* without an upstream call.
NegativeMayorServed ==
    \A r1, r2 \in DOMAIN req :
        (NoMayor(req[r1]) /\ MayorAgainWithin600(r1, r2))
        => /\ req'[r2].mayor = "done"
           /\ req'[r2].mayor_res = <<>>
           /\ req'[r2].calls.mayor = 0

\* Such a query is answered from the cache without an upstream call: with
\* the empty list, or with the mayor that another query for the same key
\* fetched and stored over the empty list.
NegativeMayorOrOverwritten ==
    \A r1, r2 \in DOMAIN req :
        (NoMayor(req[r1]) /\ MayorAgainWithin600(r1, r2))
        => /\ req'[r2].mayor = "done"
           /\ req'[r2].calls.mayor = 0
           /\ \/ req'[r2].mayor_res = <<>>
              \/ \E x \in DOMAIN req \ {r1, r2} :
                     /\ MayorKeyOf(req[x]) = MayorKeyOf(req[r1])
                     /\ req[x].mayor = "done"
                     /\ req[x].calls.mayor = 1
                     /\ req[x].mayor_res = req'[r2].mayor_res

\* C27 as stated: after a mayor query that produced no mayor, every later
\* mayor query for the same city and state within 600 seconds returns the
\* empty list without an upstream call, whereas a cached empty senators
\* or representative list is never a hit.
C27_NegativeMayorCached ==
    [][NegativeMayorServed /\ EmptyListsRefetched]_vars

\* C27: after a mayor query that produced no mayor, every later mayor
\* query for the same city and state within 600 seconds is answered from
\* the cache without an upstream call, with the empty list unless another
\* query for the same key stored a mayor over it; a cached empty senators
\* or representative list is never a hit.
C27_NegativeUnlessOverwritten ==
    [][NegativeMayorOrOverwritten /\ EmptyListsRefetched]_vars

\* Wikidata answered one caller's mayor query with a status other than
\* 200 and govtrack answered its senators and representative queries with
\* empty lists; 600 seconds later another caller got the empty mayor list
\* from the cache and queried senators and representative upstream.
C27_Witness ==
    /\ fn = "fetch"
    /\ \E r1, r2 \in DOMAIN req :
           /\ r1 # r2
           /\ NoMayor(req[r1])
           /\ req[r1].mayor_ans = "non200"
           /\ req[r1].sen = "done" /\ req[r1].sen_res = <<>>
           /\ req[r1].rep = "done" /\ req[r1].calls.rep = 1
           /\ req[r1].rep_rows = <<>>
           /\ <<MayorKeyOf(req[r1]), TTL_NEGATIVE, 0>> \in req[r1].wrote
           /\ now = TTL_NEGATIVE
           /\ req[r2].mayor = "done"
           /\ req[r2].mayor_res = <<>>
           /\ req[r2].calls.mayor = 0
           /\ req[r2].calls.sen = 1
           /\ req[r2].calls.rep = 1

(***************************************************************************)
(* free_civic.py: get_federal_officials as a process.  Each call runs from *)
(* one upstream request to the next; the answers of the ZIP provider, the  *)
(* Census geocoder, the legislators file and OpenStates are drawn from     *)
(* bounded sets.                                                           *)
(***************************************************************************)
_CACHE_TTL == 3600

FedTickSteps == {1800}

MainSt == <<"1"," ","M","a","i","n"," ","S","t">>

FedAddresses == { <<"6","0","6","0","1">>, MainSt }

Current == "Public_AR_Current"

Census2020 == "Public_AR_Census2020"

CdLayer(basename) ==
    [key |-> <<"1","1","9","t","h"," ","C","o","n","g","r","e","s","s","i","o","n","a","l",
               " ","D","i","s","t","r","i","c","t","s">>,
     items |-> <<Item(None, basename)>>]

StatesLayer(stusab) == [key |-> StatesKey, items |-> <<Item(stusab, None)>>]

GeoIL7 ==
    <<StatesLayer(<<"I","L">>),
      CdLayer(<<"C","o","n","g","r","e","s","s","i","o","n","a","l"," ",
                "D","i","s","t","r","i","c","t"," ","7">>)>>

GeoAK == <<StatesLayer(<<"A","K">>), CdLayer(AtLarge)>>

GeoNoState == <<CdLayer(AtLarge)>>

\* A bundle whose first state entry has no STUSAB.
GeoNoAbbr ==
    <<StatesLayer(None),
      CdLayer(<<"C","o","n","g","r","e","s","s","i","o","n","a","l"," ",
                "D","i","s","t","r","i","c","t"," ","7">>)>>

\* The geographies of a geocoder answer; <<>> is the empty object.
FedGeos == { <<>>, GeoIL7, GeoAK, GeoNoState, GeoNoAbbr }

FedZipAnswers ==
    { [kind |-> "exception", places |-> <<>>],
      [kind |-> "non200", places |-> <<>>],
      [kind |-> "ok", places |-> <<>>],
      [kind |-> "ok", places |-> <<Chicago>>] }

FedRevAnswers ==
    { [kind |-> "error", geo |-> <<>>] }
    \cup { [kind |-> "ok", geo |-> g] : g \in FedGeos }

Match(geo, coords) == [geo |-> geo, coords |-> coords]

FedGeoAnswers ==
    { [kind |-> "error", matches |-> <<>>],
      [kind |-> "ok", matches |-> <<>>],
      [kind |-> "ok", matches |-> <<Match(<<>>, FALSE)>>] }
    \cup { [kind |-> "ok", matches |-> <<Match(g, TRUE)>>] : g \in FedGeos \ {<<>>} }

FedRosters ==
    { <<>>, <<SenFuture, SenToday, Rep7>>, <<SenFormer, Rep9, NoTerms>>, <<RepAK>> }

FedRosterAnswers ==
    { [kind |-> "error", legislators |-> <<>>] }
    \cup { [kind |-> "ok", legislators |-> l] : l \in FedRosters }

FedPeopleAnswers ==
    { [kind |-> "error", results |-> <<>>],
      [kind |-> "ok", results |-> <<>>] }
    \cup { [kind |-> "ok", results |-> <<it>>] : it \in SampleItems }

InitFedSpec ==
    /\ now = 0
    /\ ticks = 0
    /\ cache = <<>>
    /\ req = [r \in Reqs |-> InitReq]
    /\ fn = "get_federal_officials"
    /\ arg = <<>>
    /\ ret = <<>>
    /\ \E b, k \in BOOLEAN :
           fed = [InitFed EXCEPT !.use_os = b, !.api_key = k]

\* A call is suspended in an upstream request.
FedRunning(c) == c.pc \notin {"idle", "done"}

\* address.isdigit() and len(address) == 5, lines 226 and 318.
IsZip(address) == StrIsDigit(address) /\ Len(address) = 5

\* The call ends by raising.
FedRaise(c, exc, site) == [c EXCEPT !.pc = "done", !.exc = exc, !.site = site]

\* _free_federal_officials, lines 226-227 and 273 (196): the free path up
\* to its first upstream request.
FreeStart(c) ==
    IF IsZip(c.address)
    THEN [c EXCEPT !.pc = "zip_wait", !.path = "free", !.queries = <<>>,
                   !.answers = <<>>, !.calls.zip = @ + 1,
                   !.ran = Append(@, "free")]
    ELSE [c EXCEPT !.pc = "geo1_wait", !.path = "free",
                   !.queries = <<Current>>, !.answers = <<>>,
                   !.calls.geo = @ + 1, !.ran = Append(@, "free")]

\* _openstates_officials, lines 313-329: the OpenStates path up to its
\* first upstream request.
OsStart(c) ==
    IF IsZip(c.address)
    THEN [c EXCEPT !.pc = "os_zip_wait", !.path = "os", !.calls.zip = @ + 1,
                   !.ran = Append(@, "os")]
    ELSE [c EXCEPT !.pc = "os_geo_wait", !.path = "os", !.calls.geo = @ + 1,
                   !.ran = Append(@, "os")]

\* A call that lets the exception of the OpenStates path through.
FedFail_NoFallback(c, exc, site) == FedRaise(c, exc, site)

\* Lines 384-388 and 390: an exception of the OpenStates path starts the
\* free path; an exception of the free path ends the call.
FedFail(c, exc, site) ==
    IF c.path = "os" THEN FreeStart([c EXCEPT !.os_site = site])
    ELSE FedRaise(c, exc, site)

\* The calls are made one after the other.
FedTurn(i) ==
    /\ fed.call[i].pc = "idle"
    /\ \A j \in FedCalls : ~FedRunning(fed.call[j])
    /\ \A j \in FedCalls : j < i => fed.call[j].pc = "done"

\* A cache test that never finds an entry.
FedCacheHit_Never(address) == FALSE

\* The cached entry is served, line 380.
FedCacheHit(address) ==
    /\ address \in DOMAIN fed.cache
    /\ now - fed.cache[address].stamp < _CACHE_TTL

\* get_federal_officials, lines 378-390, up to the first upstream request.
FedEnter(i, address) ==
    LET c == [fed.call[i] EXCEPT !.address = address, !.stamp = now]
    IN  fed' = [fed EXCEPT !.call[i] =
                   IF FedCacheHit(address)
                   THEN [c EXCEPT !.pc = "done", !.path = "cache",
                                  !.results = fed.cache[address].officials]
                   ELSE IF fed.use_os /\ fed.api_key THEN OsStart(c)
                   ELSE FreeStart(c)]

\* A call of get_federal_officials, made when the earlier ones have ended.
FedCall(i, address) ==
    /\ fn = "get_federal_officials"
    /\ FedTurn(i)
    /\ FedEnter(i, address)
    /\ UNCHANGED <<now, ticks, cache, req, fn, arg, ret>>

\* _zip_to_latlon, lines 147-153: the line of the raise, 0 when the
\* answer has a place.
ZipToLatLonRaises(ans) ==
    IF ans.kind = "exception" THEN 147
    ELSE IF ans.kind = "non200" THEN 149
    ELSE IF ans.places = <<>> THEN 153
    ELSE 0

\* The class of the exception raised at a line of free_civic.py: the
\* explicit raises are CivicLookupError, a failed request raises httpx's.
ExcAt(site) ==
    IF site \in {149, 153, 209, 215, 270, 301} THEN "CivicLookupError"
    ELSE "HTTPError"

\* The location is resolved: the call goes on to _load_legislators,
\* line 275 (53).
Located(c, geo, res) ==
    [c EXCEPT !.pc = "roster_wait", !.geo = geo, !.located = TRUE,
              !.state = res.state, !.district = res.district,
              !.calls.roster = @ + 1]

\* _zip_to_latlon, lines 147-158, on either path: the ZIP provider
\* answers.  The free path goes on to the reverse geocode (line 237), the
\* OpenStates path to people.geo (line 346).
FedZipAnswer(i, ans) ==
    /\ fed.call[i].pc \in {"zip_wait", "os_zip_wait"}
    /\ LET c == fed.call[i]
           site == ZipToLatLonRaises(ans)
       IN  fed' = [fed EXCEPT !.call[i] =
                      IF site # 0 THEN FedFail(c, ExcAt(site), site)
                      ELSE IF c.path = "os"
                      THEN [c EXCEPT !.pc = "os_people_wait", !.calls.os = @ + 1]
                      ELSE [c EXCEPT !.pc = "rev_wait", !.queries = <<Current>>,
                                     !.calls.geo = @ + 1]]
    /\ UNCHANGED <<now, ticks, cache, req, fn, arg, ret>>

\* _free_federal_officials, lines 241-271: the reverse geocode answers.
FedRevAnswer(i, ans) ==
    /\ fed.call[i].pc = "rev_wait"
    /\ LET c == fed.call[i]
           res == extract_state_and_cd_zip(ans.geo)
           heard == [c EXCEPT !.answers =
                        Append(@, [match |-> ans.geo # <<>>, geo |-> ans.geo])]
       IN  fed' = [fed EXCEPT !.call[i] =
                      IF ans.kind = "error" THEN FedRaise(c, ExcAt(241), 241)
                      ELSE IF res.none THEN FedRaise(heard, ExcAt(270), 270)
                      ELSE Located(heard, ans.geo, res)]
    /\ UNCHANGED <<now, ticks, cache, req, fn, arg, ret>>

\* _census_state_and_cd_from_address, lines 197-215: the geocoder answers
\* the first query (benchmark Public_AR_Current) or the second
\* (Public_AR_Census2020).
FedGeoAnswer(i, ans) ==
    /\ fed.call[i].pc \in {"geo1_wait", "geo2_wait"}
    /\ LET c == fed.call[i]
           first == c.pc = "geo1_wait"
           geo == IF ans.matches = <<>> THEN <<>> ELSE ans.matches[1].geo
           res == extract_state_and_cd_address(geo)
           heard == [c EXCEPT !.answers =
                        Append(@, [match |-> ans.matches # <<>>, geo |-> geo])]
       IN  fed' = [fed EXCEPT !.call[i] =
                      IF ans.kind = "error"
                      THEN IF first THEN FedRaise(c, ExcAt(197), 197)
                           ELSE FedRaise(c, ExcAt(205), 205)
                      ELSE IF ans.matches = <<>>
                      THEN IF first
                           THEN [heard EXCEPT !.pc = "geo2_wait",
                                              !.queries = Append(@, Census2020),
                                              !.calls.geo = @ + 1]
                           ELSE FedRaise(heard, ExcAt(209), 209)
                      ELSE IF res.none THEN FedRaise(heard, ExcAt(215), 215)
                      ELSE Located(heard, geo, res)]
    /\ UNCHANGED <<now, ticks, cache, req, fn, arg, ret>>

\* A call that stamps the entry with the time of its return.
FedReturn_StampedAtReturn(i, officials) ==
    LET c == fed.call[i]
    IN  [fed EXCEPT !.cache =
                        [a \in DOMAIN fed.cache \cup {c.address} |->
                            IF a = c.address
                            THEN [stamp |-> now, officials |-> officials]
                            ELSE fed.cache[a]],
                    !.call[i] = [c EXCEPT !.pc = "done", !.results = officials,
                                          !.stored = TRUE]]

\* get_federal_officials, lines 392-393: the result is stored under the
\* raw address with the time read at line 378, and returned.
FedReturn(i, officials) ==
    LET c == fed.call[i]
    IN  [fed EXCEPT !.cache =
                        [a \in DOMAIN fed.cache \cup {c.address} |->
                            IF a = c.address
                            THEN [stamp |-> c.stamp, officials |-> officials]
                            ELSE fed.cache[a]],
                    !.call[i] = [c EXCEPT !.pc = "done", !.results = officials,
                                          !.stored = TRUE]]

\* _load_legislators and lines 277-302: the legislators file answers.
FedRosterAnswer(i, ans) ==
    /\ fed.call[i].pc = "roster_wait"
    /\ LET c == fed.call[i]
           out == FreeFederalResults(ans.legislators, c.state, c.district,
                                     fed.today)
       IN  fed' = IF ans.kind = "error"
                  THEN [fed EXCEPT !.call[i] = FedRaise(c, ExcAt(54), 54)]
                  ELSE IF out.raised
                  THEN [fed EXCEPT !.call[i] = FedRaise(c, ExcAt(301), 301)]
                  ELSE FedReturn(i, out.results)
    /\ UNCHANGED <<now, ticks, cache, req, fn, arg, ret>>

\* _openstates_officials, lines 329-346: the geocoder answers the
\* OpenStates path's query for coordinates.
OsGeoAnswer(i, ans) ==
    /\ fed.call[i].pc = "os_geo_wait"
    /\ LET c == fed.call[i]
       IN  fed' = [fed EXCEPT !.call[i] =
                      IF ans.kind = "error" THEN FedFail(c, ExcAt(330), 330)
                      ELSE IF ans.matches = <<>> THEN FedFail(c, ExcAt(334), 334)
                      ELSE IF ~ans.matches[1].coords
                      THEN FedFail(c, ExcAt(337), 337)
                      ELSE [c EXCEPT !.pc = "os_people_wait",
                                     !.calls.os = @ + 1]]
    /\ UNCHANGED <<now, ticks, cache, req, fn, arg, ret>>

\* _openstates_officials, lines 347-361: people.geo answers.
OsPeopleAnswer(i, ans) ==
    /\ fed.call[i].pc = "os_people_wait"
    /\ LET c == fed.call[i]
           officials == [k \in 1..Len(ans.results) |->
                            _to_official_openstates(ans.results[k])]
       IN  fed' = IF ans.kind = "error"
                  THEN [fed EXCEPT !.call[i] = FedFail(c, ExcAt(347), 347)]
                  ELSE IF officials = <<>>
                  THEN [fed EXCEPT !.call[i] = FedFail(c, ExcAt(360), 360)]
                  ELSE FedReturn(i, officials)
    /\ UNCHANGED <<now, ticks, cache, req, fn, arg, ret>>

\* Time passes, between calls or while one is suspended.
FedTick ==
    /\ fn = "get_federal_officials"
    /\ ticks < MaxFedTicks
    /\ \E d \in FedTickSteps : now' = now + d
    /\ ticks' = ticks + 1
    /\ UNCHANGED <<cache, req, call>>

NextFed ==
    \/ \E i \in FedCalls, address \in FedAddresses : FedCall(i, address)
    \/ \E i \in FedCalls, ans \in FedZipAnswers : FedZipAnswer(i, ans)
    \/ \E i \in FedCalls, ans \in FedRevAnswers : FedRevAnswer(i, ans)
    \/ \E i \in FedCalls, ans \in FedGeoAnswers : FedGeoAnswer(i, ans)
    \/ \E i \in FedCalls, ans \in FedRosterAnswers : FedRosterAnswer(i, ans)
    \/ \E i \in FedCalls, ans \in FedGeoAnswers : OsGeoAnswer(i, ans)
    \/ \E i \in FedCalls, ans \in FedPeopleAnswers : OsPeopleAnswer(i, ans)
    \/ FedTick

SpecFed == InitFedSpec /\ [][NextFed]_vars

(***************************************************************************)
(* Properties of get_federal_officials.                                    *)
(***************************************************************************)
\* The call raised the error that reports no geocoding match (lines 209
\* and 270).
NoMatchRaised(c) == c.pc = "done" /\ c.site \in {209, 270}

\* C11: in the location resolution of a ZIP and of an address, a first
\* geocoder query without a match is followed by exactly one more query,
\* against the fallback benchmark; the no-match error is raised only after
\* both queries found no match; a match of the fallback query is the
\* geography used; and no resolution queries the geocoder more than twice.
C11_RetryOnce ==
    \A i \in FedCalls :
        LET c == fed.call[i]
        IN  /\ Len(c.queries) <= 2
            /\ (c.answers # <<>> /\ ~c.answers[1].match)
               => c.queries = <<Current, Census2020>>
            /\ NoMatchRaised(c)
               => (Len(c.answers) = 2 /\ ~c.answers[1].match /\ ~c.answers[2].match)
            /\ (Len(c.answers) = 2 /\ c.answers[2].match /\ c.located)
               => c.geo = c.answers[2].geo

\* C11 divergence: for a ZIP the reverse geocode found nothing and the
\* no-match error was raised after that single query.
C11_Witness ==
    \E i \in FedCalls :
        LET c == fed.call[i]
        IN  /\ IsZip(c.address)
            /\ c.queries = <<Current>>
            /\ Len(c.answers) = 1
            /\ c.answers[1].geo = <<>>
            /\ c.pc = "done"
            /\ c.site = 270

\* The call returned a list.
Returned(c) == c.pc = "done" /\ c.exc = "none"

\* The call raised after its location had resolved and the roster had
\* been read: no official was produced.
RaisedNoOfficials(c) ==
    c.pc = "done" /\ c.exc # "none" /\ c.located /\ c.site = 301

\* The call raised the lookup error of a ZIP or address that does not
\* resolve.
RaisedNotFound(c) ==
    c.pc = "done" /\ c.exc # "none" /\ ~c.located
    /\ c.site \in {149, 153, 209, 215, 270}

\* C17: get_federal_officials never returns an empty list, and the error
\* it raises when the location resolved but no official was produced is
\* of another kind than the not-found error of a ZIP or address that does
\* not resolve.
C17_DistinctAggregateError ==
    \A i, j \in FedCalls :
        /\ Returned(fed.call[i]) => fed.call[i].results # <<>>
        /\ (RaisedNoOfficials(fed.call[i]) /\ RaisedNotFound(fed.call[j]))
           => fed.call[i].exc # fed.call[j].exc

\* C17 divergence: one call raised for an unknown ZIP, another for a
\* resolved location without officials, both with CivicLookupError.
C17_Witness ==
    \E i, j \in FedCalls :
        /\ fed.call[i].pc = "done"
        /\ fed.call[i].site = 149
        /\ fed.call[i].exc = "CivicLookupError"
        /\ fed.call[j].pc = "done"
        /\ fed.call[j].located
        /\ fed.call[j].site = 301
        /\ fed.call[j].exc = "CivicLookupError"

\* The bundle has no state entry, or its first state entry has no
\* abbreviation.
NoStateAbbr(geo) ==
    LET state_items == GeoItems(geo, StatesKey)
    IN  state_items = <<>> \/ ~Truthy(state_items[1].STUSAB)

\* The last geocoder answer the call heard on the free path carried such a
\* bundle (on the address path: in a match).
HeardNoState(c) ==
    /\ c.path = "free"
    /\ c.answers # <<>>
    /\ LET a == c.answers[Len(c.answers)]
       IN  /\ IsZip(c.address) \/ a.match
           /\ NoStateAbbr(a.geo)

\* C23: a geography bundle with no state entry, or whose first state entry
\* has no abbreviation, ends the location resolution with a
\* CivicLookupError, on the ZIP path (line 270) and on the address path
\* (line 215), whatever district layer the bundle has; the legislators
\* file is not requested for that call and nothing is returned.
C23_StateMandatory ==
    \A i \in FedCalls :
        LET c == fed.call[i]
        IN  HeardNoState(c)
            => /\ c.pc = "done"
               /\ c.exc = "CivicLookupError"
               /\ c.site = IF IsZip(c.address) THEN 270 ELSE 215
               /\ ~c.located
               /\ c.calls.roster = 0
               /\ c.results = <<>>
               /\ ~c.stored

\* One call by ZIP and one by address each heard a bundle with a district
\* layer naming district 7 and a state entry without abbreviation.
C23_Witness ==
    \E i, j \in FedCalls :
        /\ IsZip(fed.call[i].address) /\ ~IsZip(fed.call[j].address)
        /\ HeardNoState(fed.call[i]) /\ HeardNoState(fed.call[j])
        /\ fed.call[i].answers[Len(fed.call[i].answers)].geo = GeoNoAbbr
        /\ fed.call[j].answers[Len(fed.call[j].answers)].geo = GeoNoAbbr

\* The lines at which the free federal path raises, and those at which
\* only the OpenStates path does.
FreeSites == {147, 149, 153, 197, 205, 209, 215, 241, 270, 54, 301}

OsOnlySites == {314, 330, 334, 337, 347, 360}

\* The call went past the cache test of line 380.
LookedUp(c) == c.pc # "idle" /\ c.path # "cache"

\* C24: with OpenStates enabled and keyed a lookup starts with the
\* OpenStates path; the free federal path is started exactly when that
\* path raised, and then the call ends as the free path ends (its list,
\* or its error); when the OpenStates path returns, the call returns
\* without the free path (no request for the legislators file).  With
\* OpenStates disabled or without a key only the free path runs.
C24_SoftFallback ==
    \A i \in FedCalls :
        LET c == fed.call[i]
        IN  LookedUp(c)
            => IF fed.use_os /\ fed.api_key
               THEN /\ c.ran \in {<<"os">>, <<"os", "free">>}
                    /\ (c.os_site # 0) <=> (c.ran = <<"os", "free">>)
                    /\ (c.pc = "done" /\ c.ran = <<"os">>)
                       => /\ c.exc = "none"
                          /\ c.stored
                          /\ c.results # <<>>
                          /\ c.calls.roster = 0
                          /\ ~c.located
                    /\ (c.pc = "done" /\ c.ran = <<"os", "free">>)
                       => \/ /\ c.exc = "none"
                             /\ c.located
                             /\ c.calls.roster = 1
                          \/ /\ c.exc # "none"
                             /\ c.site \in FreeSites
                             /\ c.results = <<>>
               ELSE /\ c.ran = <<"free">>
                    /\ c.os_site = 0
                    /\ c.calls.os = 0

\* With OpenStates enabled and keyed, one call fell back after people.geo
\* failed and ended with the free path's error, and another returned the
\* OpenStates list.
C24_Witness ==
    /\ fed.use_os /\ fed.api_key
    /\ \E i, j \in FedCalls :
           /\ fed.call[i].os_site \in OsOnlySites
           /\ fed.call[i].pc = "done"
           /\ fed.call[i].site = 301
           /\ fed.call[j].pc = "done"
           /\ fed.call[j].ran = <<"os">>
           /\ fed.call[j].stored

\* Call i came before call j, for the same raw string.
Earlier(i, j) ==
    /\ i < j
    /\ fed.call[j].pc # "idle"
    /\ fed.call[i].address = fed.call[j].address

\* The entry of _CACHE under the address was written by call i.
StoredBy(a, i) ==
    /\ fed.call[i].stored
    /\ fed.call[i].address = a
    /\ fed.cache[a].stamp = fed.call[i].stamp
    /\ fed.cache[a].officials = fed.call[i].results

\* A call made 3600 seconds or more after the clock reading of the call
\* that stored the entry is not answered from it: it performs the lookup,
\* and if the lookup raises the call raises and the entry stays as it is
\* until a later call stores.
StaleNotServed ==
    /\ \A a \in DOMAIN fed.cache : \E i \in FedCalls : StoredBy(a, i)
    /\ \A i, j \in FedCalls :
           ( /\ Earlier(i, j)
             /\ fed.call[i].stored
             /\ \A k \in FedCalls : (i < k /\ k < j) => ~fed.call[k].stored
             /\ fed.call[j].stamp - fed.call[i].stamp >= _CACHE_TTL )
           => /\ fed.call[j].path # "cache"
              /\ fed.call[j].ran # <<>>
              /\ (fed.call[j].pc = "done" /\ fed.call[j].exc # "none")
                 => /\ fed.call[j].results = <<>>
                    /\ ~fed.call[j].stored
                    /\ (\A k \in FedCalls : Earlier(j, k) => ~fed.call[k].stored)
                       => StoredBy(fed.call[j].address, i)

\* An entry of _CACHE is never removed, and it changes only in the step in
\* which a lookup for its address returns, which overwrites it with that
\* call's reading of the clock and list.
OnlyOverwritten ==
    \A a \in DOMAIN fed.cache :
        /\ a \in DOMAIN fed'.cache
        /\ fed'.cache[a] # fed.cache[a]
           => \E i \in FedCalls :
                  /\ fed.call[i].pc # "done"
                  /\ fed'.call[i].pc = "done"
                  /\ fed'.call[i].path # "cache"
                  /\ fed'.call[i].exc = "none"
                  /\ fed'.call[i].address = a
                  /\ fed'.cache[a] = [stamp |-> fed'.call[i].stamp,
                                      officials |-> fed'.call[i].results]

\* C28: an entry of _CACHE carries the clock reading taken at the start of
\* the call that stored it (line 378) and is not served to a call made
\* 3600 seconds or more after that reading, also when that call's lookup
\* fails; no read removes an entry, only a returning lookup for the same
\* address overwrites it.
C28_Staleness == []StaleNotServed /\ [][OnlyOverwritten]_vars

\* A call whose upstream took half an hour stored a list; a call made an
\* hour after the first one started (half an hour after it returned)
\* looked the address up again and raised, and the expired entry is still
\* in _CACHE.
C28_Witness ==
    \E i, j \in FedCalls :
        /\ Earlier(i, j)
        /\ fed.call[i].stored
        /\ fed.call[i].stamp = 0
        /\ fed.call[j].stamp = _CACHE_TTL
        /\ now = _CACHE_TTL
        /\ ticks = MaxFedTicks
        /\ fed.call[j].pc = "done"
        /\ fed.call[j].exc # "none"
        /\ StoredBy(fed.call[j].address, i)

(***************************************************************************)
(* get_federal_officials called for one address by NumCallers callers      *)
(* whose calls may overlap: a call runs from one upstream request to the   *)
(* next in one step, and the steps of the calls interleave freely.         *)
(* OpenStates is not configured; the geocoder fails or matches, the        *)
(* legislators file is served.                                             *)
(***************************************************************************)
OverlappingGeoAnswers ==
    {ans \in FedGeoAnswers :
        ans.kind = "error" \/ (ans.matches # <<>> /\ ans.matches[1].geo \in {GeoIL7, GeoAK})}

OverlappingRosterAnswers ==
    {[kind |-> "ok", legislators |-> l] : l \in {<<SenFuture, SenToday, Rep7>>, <<RepAK>>}}

InitFedOverlapping ==
    /\ now = 0
    /\ ticks = 0
    /\ cache = <<>>
    /\ req = [r \in Reqs |-> InitReq]
    /\ fn = "get_federal_officials, overlapping"
    /\ arg = <<>>
    /\ ret = <<>>
    /\ fed = [InitFed EXCEPT !.call = [i \in Callers |-> InitFedCall]]

\* A call of get_federal_officials, made at any time.
FedCallOverlapping(i) ==
    /\ fn = "get_federal_officials, overlapping"
    /\ fed.call[i].pc = "idle"
    /\ FedEnter(i, MainSt)
    /\ UNCHANGED <<now, ticks, cache, req, fn, arg, ret>>

\* Time passes, between calls or while some are suspended.
FedOverlappingTick ==
    /\ fn = "get_federal_officials, overlapping"
    /\ ticks < MaxFedTicks
    /\ \E d \in FedTickSteps : now' = now + d
    /\ ticks' = ticks + 1
    /\ UNCHANGED <<cache, req, call>>

NextFedOverlapping ==
    \/ \E i \in Callers : FedCallOverlapping(i)
    \/ \E i \in Callers, ans \in OverlappingGeoAnswers : FedGeoAnswer(i, ans)
    \/ \E i \in Callers, ans \in OverlappingRosterAnswers : FedRosterAnswer(i, ans)
    \/ FedOverlappingTick

SpecFedOverlapping == InitFedOverlapping /\ [][NextFedOverlapping]_vars

\* The step is the start of call j, for the raw string a.
Enters(j, a) ==
    /\ fed.call[j].pc = "idle"
    /\ fed'.call[j].pc # "idle"
    /\ fed'.call[j].address = a

\* Call i has returned a list for the raw string a, and less than
\* _CACHE_TTL seconds have passed since it read the clock.
SucceededWithinTTL(i, a) ==
    /\ fed.call[i].stored
    /\ fed.call[i].address = a
    /\ now - fed.call[i].stamp < _CACHE_TTL

\* The starting call j returns the list at once, without any upstream
\* request.
ServedList(j, officials) ==
    /\ fed'.call[j].pc = "done"
    /\ fed'.call[j].path = "cache"
    /\ fed'.call[j].exc = "none"
    /\ fed'.call[j].results = officials
    /\ fed'.call[j].calls = NoFedCalls
    /\ fed'.call[j].ran = <<>>

\* A call that raises stores nothing, and a call that finds no entry for
\* its string performs the lookup.
RaiseStoresNothing ==
    /\ \A i \in DOMAIN fed.call :
           (fed.call[i].pc # "done" /\ fed'.call[i].pc = "done" /\ fed'.call[i].exc # "none")
           => /\ fed'.cache = fed.cache
              /\ ~fed'.call[i].stored
    /\ \A j \in DOMAIN fed.call, a \in FedAddresses :
           (Enters(j, a) /\ a \notin DOMAIN fed.cache) => fed'.call[j].ran # <<>>

ServedAfterSuccess ==
    \A i, j \in DOMAIN fed.call, a \in FedAddresses :
        (SucceededWithinTTL(i, a) /\ Enters(j, a))
        => ServedList(j, fed.call[i].results)

ServedWhileEntryStays ==
    \A i, j \in DOMAIN fed.call, a \in FedAddresses :
        (SucceededWithinTTL(i, a) /\ Enters(j, a) /\ StoredBy(a, i))
        => ServedList(j, fed.call[i].results)

\* C26 as stated: after a call for a raw string has returned, every later
\* call for the same string made within _CACHE_TTL returns the same list
\* without any upstream request; a call that raises stores nothing, so the
\* next call for the string performs the lookup.
C26_AddressCache == [][ServedAfterSuccess /\ RaiseStoresNothing]_vars

\* C26: after a call for a raw string has returned, every later call for
\* the same string made less than _CACHE_TTL seconds after that call read
\* the clock, while the entry that call stored is still the one in
\* _CACHE, returns the same list without any upstream request; a call
\* that raises stores nothing, so the next call performs the lookup.
C26_AddressCacheWhileEntryStays ==
    [][ServedWhileEntryStays /\ RaiseStoresNothing]_vars

\* A call returned a list fetched from upstream, and half an hour later a
\* call for the same string returned it from the cache; a third call had
\* raised before and stored nothing.
C26_Witness ==
    /\ fn = "get_federal_officials, overlapping"
    /\ \E i, j, k \in DOMAIN fed.call :
           /\ fed.call[k].exc # "none"
           /\ fed.call[i].stored
           /\ fed.call[i].address = fed.call[j].address
           /\ fed.call[j].stamp - fed.call[i].stamp = 1800
           /\ fed.call[j].pc = "done"
           /\ fed.call[j].path = "cache"
           /\ fed.call[j].results = fed.call[i].results
           /\ fed.call[j].calls = NoFedCalls

====
